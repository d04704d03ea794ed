------------------------------- MODULE Sanctions -------------------------------
(***************************************************************************)
(* The EU sanctions list in the graph (src/src/etl/load_eu_sanctions.py).  *)
(* A run logs the whole list between BeginGraphReplace and EndGraphReplace *)
(* in one batch, and then, in another one, a review candidate for every    *)
(* organisation that the resolver recognises.  The graph sink collects a   *)
(* bracket in its memory and loses it when it restarts                     *)
(* (src/src/etl/load_us_financials.py:9-18).                               *)
(***************************************************************************)
EXTENDS Naturals, Sequences, FiniteSets, SequencesExt, FiniteSetsExt

CONSTANTS
  Sanctionable,    \* the subjects that may be on the list
  ListedAs,        \* ListedAs[s]: what it states of s, as records (below)
  Unusable,        \* a name of one letter, or of none
  NoCountry,       \* a country that is "00", UNKNOWN or not stated
  MaxListChanges,  \* bound: changes of the list
  MaxSanctionRuns, \* bound: runs
  MaxSinkRestarts  \* bound: restarts of the sink

\* reference: it has an id; person: the code of its subjectType says so; names: its
\* nameAlias elements, the short name first; countries: those of citizenship,
\* address and identification, in that order.
ASSUME SanctionsAssumption ==
  /\ IsFiniteSet(Sanctionable)
  /\ \A s \in Sanctionable :
       DOMAIN ListedAs[s] = {"reference", "person", "names", "countries"}

VARIABLES
  fsf,            \* the subjects on the published list
  sanctionLog,    \* the events that were committed
  projected,      \* how many of them the sink has applied
  bracket,        \* the bracket the sink has open
  sanctioned,     \* the SanctionedEntity nodes
  attributed,     \* the subjects whose own company has a SANCTIONED edge
  candidates,     \* the unreviewed same-as edges, from a subject's own company
  sanctionRun,    \* the run
  publishedLists, \* the lists, as published, that the committed brackets stand for
  torn,           \* a restart hit a bracket, and none was applied whole since
  listChanges, sanctionRuns, sinkRestarts

sanctionVars == <<fsf, sanctionLog, projected, bracket, sanctioned, attributed, candidates,
                  sanctionRun, publishedLists, torn, listChanges, sanctionRuns, sinkRestarts>>

NoBracket == [open |-> FALSE, holds |-> {}]
SanctionsIdle == [pc |-> "idle", list |-> {}, entities |-> {}]

\* An event, and a candidate: the name it was recognised by.
SanctionEvent(kind, s, name) == [kind |-> kind, subject |-> s, via |-> name]
Control(kind) == SanctionEvent(kind, "none", "none")

SanctionsInit ==
  /\ fsf = {} /\ sanctionLog = <<>> /\ projected = 0 /\ bracket = NoBracket
  /\ sanctioned = {} /\ attributed = {} /\ candidates = {} /\ sanctionRun = SanctionsIdle
  /\ publishedLists = <<>> /\ torn = FALSE
  /\ listChanges = 0 /\ sanctionRuns = 0 /\ sinkRestarts = 0

\* The Commission lists or delists a subject.
ListChanges ==
  /\ listChanges < MaxListChanges
  /\ \E s \in Sanctionable : fsf' = IF s \in fsf THEN fsf \ {s} ELSE fsf \union {s}
  /\ listChanges' = listChanges + 1
  /\ UNCHANGED <<sanctionLog, projected, bracket, sanctioned, attributed, candidates,
                 sanctionRun, publishedLists, torn, sanctionRuns, sinkRestarts>>

\* _collect_names: each name once; _find_nationality: the first country stated.
Names(s) ==
  FoldLeft(LAMBDA seen, n :
             IF n = Unusable \/ n \in ToSet(seen) THEN seen ELSE Append(seen, n),
           <<>>, ListedAs[s].names)
Nationality(s) ==
  LET stated == SelectSeq(ListedAs[s].countries, LAMBDA c : c # NoCountry) IN
  IF stated = <<>> THEN NoCountry ELSE stated[1]
Person == {s \in Sanctionable : ListedAs[s].person}

\* Mutant: persons are filtered out, as they once were.
Parsed_NoPersons(list) == {s \in list : ListedAs[s].reference} \ Person

\* parse_sanctions_xml: what has no id is passed over; persons are kept.
Parsed(list) == {s \in list : ListedAs[s].reference}

\* main: the list is downloaded and parsed; an error ends the run here.
DownloadList ==
  /\ sanctionRun.pc = "idle" /\ sanctionRuns < MaxSanctionRuns
  /\ sanctionRuns' = sanctionRuns + 1
  /\ sanctionRun' = [pc |-> "emit", list |-> fsf, entities |-> Parsed(fsf)]
  /\ UNCHANGED <<fsf, sanctionLog, projected, bracket, sanctioned, attributed, candidates,
                 publishedLists, torn, listChanges, sinkRestarts>>

\* The batch: sent in chunks, committed as one.
EmitSanctions ==
  /\ sanctionRun.pc = "emit"
  /\ sanctionLog' =
       sanctionLog \o <<Control("begin")>>
                   \o [i \in 1..Cardinality(sanctionRun.entities) |->
                         SanctionEvent("subject", SetToSeq(sanctionRun.entities)[i], "none")]
                   \o <<Control("end")>>
  /\ sanctionRun' = [sanctionRun EXCEPT !.pc = "resolve"]
  /\ publishedLists' = Append(publishedLists, sanctionRun.list)
  /\ UNCHANGED <<fsf, projected, bracket, sanctioned, attributed, candidates, torn,
                 listChanges, sanctionRuns, sinkRestarts>>

\* resolve_company_links: without a country nothing is asked; each name in turn,
\* up to the first one that the resolver matches with confidence.
Recognised(s, matched) == {i \in DOMAIN Names(s) : Names(s)[i] \in matched}
Candidates(entities, matched) ==
  {SanctionEvent("candidate", s, Names(s)[Min(Recognised(s, matched))]) :
     s \in {x \in entities \ Person :
              Nationality(x) # NoCountry /\ Recognised(x, matched) # {}}}

\* _emit_review_candidates: no batch where there is none.
EmitReviewCandidates ==
  /\ sanctionRun.pc = "resolve"
  /\ \E matched \in SUBSET UNION {ToSet(Names(s)) : s \in Sanctionable} :
       sanctionLog' = sanctionLog \o SetToSeq(Candidates(sanctionRun.entities, matched))
  /\ sanctionRun' = SanctionsIdle
  /\ UNCHANGED <<fsf, projected, bracket, sanctioned, attributed, candidates,
                 publishedLists, torn, listChanges, sanctionRuns, sinkRestarts>>

\* The resolver, the log or the pod fails: what is not committed is gone.
SanctionsRunDies ==
  /\ sanctionRun.pc # "idle"
  /\ sanctionRun' = SanctionsIdle
  /\ UNCHANGED <<fsf, sanctionLog, projected, bracket, sanctioned, attributed, candidates,
                 publishedLists, torn, listChanges, sanctionRuns, sinkRestarts>>

\* The sink applies the next event.  The end of a bracket detaches and deletes
\* the nodes of the label and creates those it collected; without a bracket it
\* does nothing, and a subject outside of one is merged.
SinkProjects ==
  /\ projected < Len(sanctionLog)
  /\ projected' = projected + 1
  /\ LET e == sanctionLog[projected'] IN
       CASE e.kind = "begin" ->
              /\ bracket' = [open |-> TRUE, holds |-> {}]
              /\ UNCHANGED <<sanctioned, attributed, candidates, torn>>
         [] e.kind = "subject" ->
              /\ bracket' = IF bracket.open THEN [bracket EXCEPT !.holds = @ \union {e.subject}]
                                            ELSE bracket
              /\ sanctioned' = IF bracket.open THEN sanctioned ELSE sanctioned \union {e.subject}
              /\ UNCHANGED <<attributed, candidates, torn>>
         [] e.kind = "end" ->
              /\ sanctioned' = IF bracket.open THEN bracket.holds ELSE sanctioned
              /\ attributed' = IF bracket.open THEN {} ELSE attributed
              /\ torn' = (torn /\ ~bracket.open)
              /\ bracket' = NoBracket /\ UNCHANGED candidates
         [] OTHER ->
              /\ attributed' = attributed \union (sanctioned \intersect {e.subject})
              /\ candidates' = candidates \union {<<e.subject, e.via>>}
              /\ UNCHANGED <<bracket, sanctioned, torn>>
  /\ UNCHANGED <<fsf, sanctionLog, sanctionRun, publishedLists, listChanges, sanctionRuns,
                 sinkRestarts>>

SinkRestarts ==
  /\ sinkRestarts < MaxSinkRestarts
  /\ sinkRestarts' = sinkRestarts + 1
  /\ torn' = (torn \/ bracket.open)
  /\ bracket' = NoBracket
  /\ UNCHANGED <<fsf, sanctionLog, projected, sanctioned, attributed, candidates,
                 sanctionRun, publishedLists, listChanges, sanctionRuns>>

SanctionsNext ==
  \/ ListChanges \/ DownloadList \/ EmitSanctions \/ EmitReviewCandidates \/ SanctionsRunDies
  \/ SinkProjects \/ SinkRestarts

SanctionsSpec == SanctionsInit /\ [][SanctionsNext]_sanctionVars

----------------------------------------------------------------------------
(* Properties                                                              *)

SinkApplied(kind) == {i \in 1..projected : sanctionLog[i].kind = kind}

\* Between brackets the graph shows the list of the last bracket the sink applied,
\* as the Commission published it, but for subjects without an id: nobody who was
\* delisted is left, nobody is missing, though runs die between their two batches,
\* unless the sink restarted within a bracket and no later one was applied whole.
\* And a company has a SANCTIONED edge only if a run of that list, or of a later
\* one that the sink lost, proposed it, and only to a node that exists.
SanctionsFollowTheList ==
  ~torn /\ ~bracket.open =>
    /\ LET n == Cardinality(SinkApplied("end")) IN
         sanctioned =
           IF n = 0 THEN {} ELSE {s \in publishedLists[n] : ListedAs[s].reference}
    /\ attributed = {sanctionLog[i].subject :
                       i \in {j \in SinkApplied("candidate") :
                                \A k \in SinkApplied("end") : k < j}}
=============================================================================
