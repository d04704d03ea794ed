--------------------------- MODULE RebuildCompanies ----------------------------
(***************************************************************************)
(* The repair of company subjects that the triple store lost               *)
(* (src/src/etl/rebuild_stripped_companies.py): a run selects damaged      *)
(* subjects, one keyset page after the other, looks their entities up in   *)
(* Neo4j, holds back those the rebuild would cost a link, and emits an     *)
(* UpsertCompany for the others.  A sink applies the events in the order   *)
(* of the log, behind the run, and other producers add links meanwhile.    *)
(***************************************************************************)
EXTENDS Integers, FiniteSets, Sequences

CONSTANTS
  MaxEntity,   \* bound: entities 1..MaxEntity
  PageSizes,   \* sizes of a page (--page-size)
  EmitBatch,   \* events of one transaction (--batch)
  MaxLinks,    \* bound: links that other producers add
  MaxRepairs   \* bound: runs

ASSUME RebuildAssumption == MaxEntity \in Nat /\ EmitBatch \in Nat \ {0}

Entities == 1..MaxEntity

\* An entity has two subjects, which sort by class and then by id.
Subject == {"Company", "InvestmentFund"} \X Entities
SortKey(s) == IF s[1] = "Company" THEN s[2] ELSE MaxEntity + s[2]

\* What the rebuild writes back (_REWRITTEN), and what it does not.
Rewritten0 == {"type", "label"}
LinkPredicate == {"sameAs", "subsidiaryOf"}

VARIABLES
  node,        \* node[e]: what Neo4j has of e
  subjects,    \* subjects[s]: the predicates that s has in the triple store
  rebuildLog,  \* the events that the sink has still to apply
  repair,      \* the run and its local variables
  linksAdded, repairsBegun

rebuildVars == <<node, subjects, rebuildLog, repair, linksAdded, repairsBegun>>

NodeState == {"missing", "nameless", "unkinded", "general", "fund"}

RepairIdle == [pc |-> "idle", select |-> "none", size |-> 1, last |-> 0, page |-> {},
               checked |-> [s \in Subject |-> {}], left |-> {}, rebuilt |-> {}]

RebuildInit ==
  /\ node \in [Entities -> NodeState]
  /\ subjects \in [Subject -> {{}, {"type"}, {"type", "label"}, {"sameAs"}}]
  /\ rebuildLog = <<>>
  /\ repair = RepairIdle
  /\ linksAdded = 0 /\ repairsBegun = 0

----------------------------------------------------------------------------
(* The sink and the other producers                                        *)

\* Another producer links an entity: AssertSameAs, or a subsidiary's parent.
\* The sink adds the predicate and deletes nothing.
AddLink ==
  /\ linksAdded < MaxLinks
  /\ linksAdded' = linksAdded + 1
  /\ \E s \in Subject, p \in LinkPredicate :
       subjects' = [subjects EXCEPT ![s] = @ \union {p}]
  /\ UNCHANGED <<node, rebuildLog, repair, repairsBegun>>

\* What UpsertCompany does to the subjects of its entity: without a kind it
\* replaces the fields it states; with one it drops the fund subject, whole, and
\* replaces the company subject, which keeps its owl:sameAs; and it writes the
\* record at the subject of its kind.
Upserted(ev) ==
  LET company == <<"Company", ev.entity>>
      fund == <<"InvestmentFund", ev.entity>>
      kept == subjects[company] \intersect {"sameAs"} IN
  CASE ev.kind = "none" -> [subjects EXCEPT ![company] = @ \union Rewritten0]
    [] ev.kind = "general" -> [subjects EXCEPT ![company] = kept \union Rewritten0,
                                               ![fund] = {}]
    [] ev.kind = "fund" -> [subjects EXCEPT ![company] = kept, ![fund] = Rewritten0]

\* The sink applies the next event.
SinkApplies ==
  /\ rebuildLog # <<>>
  /\ subjects' = Upserted(Head(rebuildLog))
  /\ rebuildLog' = Tail(rebuildLog)
  /\ UNCHANGED <<node, repair, linksAdded, repairsBegun>>

----------------------------------------------------------------------------
(* A run                                                                   *)

\* main: what to select, and for the labelless where to start.
StartRepair ==
  /\ repair.pc = "idle" /\ repairsBegun < MaxRepairs
  /\ repairsBegun' = repairsBegun + 1
  /\ \E select \in {"stripped", "labelless"}, size \in PageSizes :
       \E last \in IF select = "labelless" THEN {0, MaxEntity} ELSE {0} :
         repair' = [RepairIdle EXCEPT !.pc = "select", !.select = select,
                                      !.size = size, !.last = last]
  /\ UNCHANGED <<node, subjects, rebuildLog, linksAdded>>

\* The damage that a run looks for, beyond the last key.
Stripped(s) == s[1] = "Company" /\ "sameAs" \in subjects[s] /\ "type" \notin subjects[s]
Labelless(s) == "type" \in subjects[s] /\ "label" \notin subjects[s]
Damaged ==
  {s \in Subject : SortKey(s) > repair.last /\
     IF repair.select = "stripped" THEN Stripped(s) ELSE Labelless(s)}

\* The first subjects of them, as many as fit in a page; the repair of the
\* stripped collects all of its pages before it looks anything up.
FirstOf(found) ==
  {s \in found : \/ repair.select = "stripped"
                 \/ Cardinality({t \in found : SortKey(t) < SortKey(s)}) < repair.size}

\* iter_labelless, find_stripped: the next page.
SelectPage ==
  /\ repair.pc = "select" /\ Damaged # {}
  /\ LET page == FirstOf(Damaged) IN
       repair' = [repair EXCEPT !.pc = "check", !.page = page,
         !.last = SortKey(CHOOSE s \in page : \A t \in page : SortKey(t) <= SortKey(s))]
  /\ UNCHANGED <<node, subjects, rebuildLog, linksAdded, repairsBegun>>

EndRepair ==
  /\ repair.pc = "select" /\ Damaged = {}
  /\ repair' = [repair EXCEPT !.pc = "done"]
  /\ UNCHANGED <<node, subjects, rebuildLog, linksAdded, repairsBegun>>

LeaveRepair ==
  /\ repair.pc = "done" /\ repair' = RepairIdle
  /\ UNCHANGED <<node, subjects, rebuildLog, linksAdded, repairsBegun>>

OnPage == {s[2] : s \in repair.page}

\* _labelless_payload: the kind that the payload of e carries.  The repair of
\* the stripped sends none.
KindOf(e) ==
  IF repair.select = "stripped" THEN "none"
  ELSE IF node[e] = "fund" THEN "fund"
  ELSE IF <<"Company", e>> \in repair.page THEN "none" ELSE "general"

\* load_from_neo4j, load_for_labelless: entities with a source to rebuild from.
Rebuildable ==
  {e \in OnPage :
     /\ node[e] \notin {"missing", "nameless"}
     /\ repair.select = "stripped" => node[e] # "fund"
     /\ repair.select = "labelless" /\ <<"Company", e>> \notin repair.page
          => node[e] # "unkinded"}

\* Mutant: only the subject that was selected is looked at.
Loses_Selected(e) ==
  KindOf(e) # "none" /\ \E s \in repair.page : s[2] = e /\ subjects[s] \ Rewritten0 # {}

\* would_lose: a payload with a kind, one of whose subjects has anything else.
Loses(e) ==
  KindOf(e) # "none" /\ \E s \in Subject : s[2] = e /\ subjects[s] \ Rewritten0 # {}

\* _rebuild_page: those that are not held back are left to emit.
CheckPage ==
  /\ repair.pc = "check"
  /\ repair' = [repair EXCEPT !.pc = "emit", !.checked = subjects,
                  !.left = {e \in Rebuildable : ~Loses(e)}]
  /\ UNCHANGED <<node, subjects, rebuildLog, linksAdded, repairsBegun>>

\* emit_rebuilds: one event each, a batch of them in one transaction; history:
\* the event knows what its page was checked against.
EmitPage ==
  /\ repair.pc = "emit"
  /\ LET chunk == {e \in repair.left : Cardinality({d \in repair.left : d < e}) < EmitBatch} IN
       /\ \E order \in [1..Cardinality(chunk) -> chunk] :
            /\ \A i, j \in DOMAIN order : i < j => order[i] < order[j]
            /\ rebuildLog' = rebuildLog \o
                 [i \in DOMAIN order |-> [entity |-> order[i], kind |-> KindOf(order[i]),
                                          checked |-> repair.checked]]
       /\ repair' = [repair EXCEPT !.left = @ \ chunk, !.rebuilt = @ \union chunk,
                       !.pc = IF repair.left = chunk THEN "select" ELSE "emit",
                       !.page = IF repair.left = chunk THEN {} ELSE @]
  /\ UNCHANGED <<node, subjects, linksAdded, repairsBegun>>

\* The run is killed; the log keeps what it emitted.
RepairDies ==
  /\ repair.pc \in {"check", "emit"}
  /\ repair' = RepairIdle
  /\ UNCHANGED <<node, subjects, rebuildLog, linksAdded, repairsBegun>>

RebuildNext ==
  \/ AddLink \/ SinkApplies \/ StartRepair \/ SelectPage \/ EndRepair
  \/ LeaveRepair \/ CheckPage \/ EmitPage \/ RepairDies

RebuildSpec == RebuildInit /\ [][RebuildNext]_rebuildVars

----------------------------------------------------------------------------
(* Properties                                                              *)

\* The subject that an entity is described at.
Home(e) == <<IF node[e] = "fund" THEN "InvestmentFund" ELSE "Company", e>>

\* Once the log of a finished run is applied, every entity that the run counts
\* as rebuilt has its type and its name where readers look for it, whichever
\* of its two subjects the run came upon, on one page or on two, and whatever
\* was rebuilt more than once.
RebuildHeals ==
  repair.pc = "done" /\ rebuildLog = <<>> =>
    \A e \in repair.rebuilt : Rewritten0 \subseteq subjects[Home(e)]

\* No rebuild costs a subject a link that it had when its page was checked, and
\* none leaves behind a subject with an owl:sameAs, checked at that time, and
\* nothing else, which is how the damage looked that this repair is for.
RebuildLosesNoLink ==
  [][rebuildLog # <<>> /\ rebuildLog' = Tail(rebuildLog) =>
       \A s \in Subject :
         LET had == Head(rebuildLog).checked[s] IN
         /\ subjects[s] \intersect had \intersect LinkPredicate \subseteq subjects'[s]
         /\ "sameAs" \in had /\ "type" \in subjects[s] => "type" \in subjects'[s]]_rebuildVars

\* A rebuild restores what was stripped and strips nothing itself.
RebuildIsSafe == []RebuildHeals /\ RebuildLosesNoLink
=============================================================================
