--------------------------- MODULE RepairProofs ---------------------------
(***************************************************************************)
(* Proofs about the scripts that repair, link and copy the graph:          *)
(* PurgeSubjects, RebuildCompanies, GraphRepairs, TitleLang, NutsLinks and *)
(* GraphBridge, for any items, entities, notices, page sizes and numbers of *)
(* runs.                                                                   *)
(***************************************************************************)
EXTENDS PurgeSubjects, RebuildCompanies, GraphRepairs, TitleLang, NutsLinks,
        GraphBridge, FiniteSetTheorems, SequenceTheorems, WellFoundedInduction, TLAPS

----------------------------------------------------------------------------
(* PurgeSubjects: unless orphans are allowed, no purge takes the last copy of *)
(* an item away.                                                           *)

(* The inductive invariant: a live subject is never taken away, so a twin  *)
(* that was seen is still there when the purge is applied.                 *)

PurgeEvent == [type : {"upsert"}, item : Item]
              \union [type : {"purge"}, item : Item, orphans : BOOLEAN]

PurgeTypes ==
  /\ holds \in [Item \X Side -> Holding]
  /\ purgeLog \in Seq(PurgeEvent)
  /\ purge = [pc |-> purge.pc, orphans |-> purge.orphans, last |-> purge.last,
              found |-> purge.found, all |-> purge.all, targets |-> purge.targets]
  /\ purge.orphans \in BOOLEAN /\ purge.found \subseteq Item /\ purge.targets \subseteq Item

Alive(i) == holds[<<i, "live">>] # "nothing"
AliveNext(i) == holds'[<<i, "live">>] # "nothing"

PurgeInv ==
  /\ PurgeTypes
  /\ \A i \in Item : <<i, "live">> \in purge.all => Alive(i)
  /\ ~purge.orphans => \A i \in purge.targets : Alive(i)
  /\ \A k \in 1..Len(purgeLog) :
       purgeLog[k].type = "purge" /\ ~purgeLog[k].orphans => Alive(purgeLog[k].item)

LEMMA PurgeInitInv == PurgeInit => PurgeInv
<1>. SUFFICES ASSUME PurgeInit PROVE PurgeInv
  OBVIOUS
<1>2. PurgeTypes
  BY DEF PurgeInit, PurgeTypes, PurgeIdle
<1>3. purge.all = {} /\ purge.targets = {} /\ Len(purgeLog) = 0
  BY DEF PurgeInit, PurgeIdle
<1>. QED  BY <1>2, <1>3 DEF PurgeInv

\* Adding an event to the log.
LEMMA AppendInv ==
  ASSUME PurgeInv, NEW e \in PurgeEvent, purgeLog' = Append(purgeLog, e),
         UNCHANGED holds, e.type = "purge" /\ ~e.orphans => Alive(e.item)
  PROVE  /\ purgeLog' \in Seq(PurgeEvent)
         /\ \A k \in 1..Len(purgeLog') :
              purgeLog'[k].type = "purge" /\ ~purgeLog'[k].orphans
                => AliveNext(purgeLog'[k].item)
<1>1. purgeLog \in Seq(PurgeEvent)
  BY DEF PurgeInv, PurgeTypes
<1>2. purgeLog' \in Seq(PurgeEvent) /\ Len(purgeLog') = Len(purgeLog) + 1
  BY <1>1
<1>3. ASSUME NEW k \in 1..Len(purgeLog'), purgeLog'[k].type = "purge", ~purgeLog'[k].orphans
      PROVE  AliveNext(purgeLog'[k].item)
  <2>1. CASE k \in 1..Len(purgeLog)
    <3>1. purgeLog'[k] = purgeLog[k]
      BY <1>1, <2>1
    <3>. QED  BY <1>3, <2>1, <3>1 DEF PurgeInv, Alive, AliveNext
  <2>2. CASE k = Len(purgeLog) + 1
    <3>1. purgeLog'[k] = e
      BY <1>1, <2>2
    <3>. QED  BY <1>3, <3>1 DEF Alive, AliveNext
  <2>. QED  BY <1>1, <1>2, <2>1, <2>2
<1>. QED  BY <1>2, <1>3

\* Steps of a run that leave graph and log alone.
LEMMA RunInv ==
  ASSUME PurgeInv, UNCHANGED <<holds, purgeLog>>, PurgeTypes',
         \A i \in Item : <<i, "live">> \in purge'.all => Alive(i),
         ~purge'.orphans => \A i \in purge'.targets : Alive(i)
  PROVE  PurgeInv'
  BY DEF PurgeInv, PurgeTypes, Alive, AliveNext

\* Applying the log never takes a live subject away.
LEMMA ApplyKeepsLive ==
  ASSUME PurgeInv, ApplyPurgeLog
  PROVE  /\ PurgeInv'
         /\ \A i \in Item : Alive(i) => AliveNext(i)
<1>. DEFINE e == Head(purgeLog)
<1>1. /\ purgeLog \in Seq(PurgeEvent) /\ purgeLog # <<>> /\ purgeLog' = Tail(purgeLog)
      /\ holds \in [Item \X Side -> Holding] /\ UNCHANGED purge
  BY DEF ApplyPurgeLog, PurgeInv, PurgeTypes
<1>2. e \in PurgeEvent /\ purgeLog' \in Seq(PurgeEvent)
      /\ \A k \in 1..Len(purgeLog') : k + 1 \in 1..Len(purgeLog)
                                      /\ purgeLog'[k] = purgeLog[k + 1]
  BY <1>1
<1>3. e.item \in Item
  BY <1>2 DEF PurgeEvent
<1>4. holds' \in {[holds EXCEPT ![<<e.item, "live">>] = "facts"], holds,
                  [holds EXCEPT ![<<e.item, "left">>] = "nothing"]}
  BY DEF ApplyPurgeLog
<1>. HIDE DEF e
<1>5. holds' \in [Item \X Side -> Holding]
  BY <1>1, <1>3, <1>4 DEF Side, Holding
<1>6. \A i \in Item : Alive(i) => AliveNext(i)
  BY <1>1, <1>3, <1>4 DEF Alive, AliveNext, Side
<1>7. \A k \in 1..Len(purgeLog) : purgeLog[k].item \in Item
  BY <1>1 DEF PurgeEvent
<1>8. PurgeTypes'
  BY <1>1, <1>2, <1>5 DEF PurgeInv, PurgeTypes
<1>9. \A k \in 1..Len(purgeLog') :
        purgeLog'[k].type = "purge" /\ ~purgeLog'[k].orphans => AliveNext(purgeLog'[k].item)
  BY <1>2, <1>6, <1>7 DEF PurgeInv
<1>10. \A i \in Item : <<i, "live">> \in purge'.all => AliveNext(i)
  BY <1>1, <1>6 DEF PurgeInv
<1>11. ~purge'.orphans => \A i \in purge'.targets : AliveNext(i)
  BY <1>1, <1>6 DEF PurgeInv, PurgeTypes
<1>. QED  BY <1>6, <1>8, <1>9, <1>10, <1>11 DEF PurgeInv, Alive, AliveNext

\* The pages hold subjects that are there.
LEMMA PageIsThere ==
  ASSUME PurgeInv
  PROVE  /\ PurgePageOf \subseteq Item \X Side
         /\ \A i \in Item : <<i, "live">> \in PurgePageOf => Alive(i)
<1>1. PurgePageOf \subseteq PurgeRows /\ PurgeRows \subseteq Item \X Side
  BY DEF PurgePageOf, PurgeRows
<1>2. ASSUME NEW i \in Item, <<i, "live">> \in PurgeRows
      PROVE  Alive(i)
  <2>1. <<i, "live">>[2] # "left"
    OBVIOUS
  <2>. QED  BY <1>2, <2>1 DEF PurgeRows, Alive, AliveNext
<1>. QED  BY <1>1, <1>2

\* Every subject of a page that is scanned was there.
LEMMA ScanInv ==
  ASSUME PurgeInv, ScanPage
  PROVE  PurgeInv'
<1>. DEFINE found == {s[1] : s \in {t \in PurgePageOf : t[2] = "left"}}
            last == IF PurgePageOf = {} THEN purge.last
                    ELSE IriKey(CHOOSE s \in PurgePageOf :
                                  \A t \in PurgePageOf : IriKey(t) <= IriKey(s))
            pc == IF Cardinality(PurgePageOf) < PurgePage THEN "twins" ELSE purge.pc
<1>1. purge' = [purge EXCEPT !.found = purge.found \union found,
                             !.all = purge.all \union PurgePageOf,
                             !.last = last, !.pc = pc]
  BY DEF ScanPage
<1>2. found \subseteq Item
  BY PageIsThere
<1>. HIDE DEF found, last, pc
<1>3. UNCHANGED <<holds, purgeLog>>
  BY DEF ScanPage
<1>4. purge' = [pc |-> pc, orphans |-> purge.orphans, last |-> last,
                found |-> purge.found \union found, all |-> purge.all \union PurgePageOf,
                targets |-> purge.targets]
  BY <1>1 DEF PurgeInv, PurgeTypes
<1>5. PurgeTypes'
  BY <1>2, <1>3, <1>4 DEF PurgeInv, PurgeTypes
<1>6. \A i \in Item : <<i, "live">> \in purge'.all => Alive(i)
  BY <1>4, PageIsThere DEF PurgeInv
<1>7. ~purge'.orphans => \A i \in purge'.targets : Alive(i)
  BY <1>4 DEF PurgeInv
<1>. QED  BY <1>3, <1>5, <1>6, <1>7, RunInv

\* A subject that has a twin, has a live one.
LEMMA PartitionInv ==
  ASSUME PurgeInv, PartitionByTwin
  PROVE  PurgeInv'
<1>. DEFINE targets == {i \in purge.found : HasTwin(i) \/ purge.orphans}
<1>1. purge' = [purge EXCEPT !.pc = "emit", !.targets = targets]
  BY DEF PartitionByTwin
<1>2. UNCHANGED <<holds, purgeLog>>
  BY DEF PartitionByTwin
<1>3. targets \subseteq Item
  BY DEF PurgeInv, PurgeTypes
<1>4. ~purge.orphans => \A i \in targets : Alive(i)
  BY <1>3 DEF PurgeInv, HasTwin, Alive, AliveNext
<1>. HIDE DEF targets
<1>5. purge' = [pc |-> "emit", orphans |-> purge.orphans, last |-> purge.last,
                found |-> purge.found, all |-> purge.all, targets |-> targets]
  BY <1>1 DEF PurgeInv, PurgeTypes
<1>6. PurgeTypes'
  BY <1>2, <1>3, <1>5 DEF PurgeInv, PurgeTypes
<1>. QED  BY <1>2, <1>4, <1>5, <1>6, RunInv DEF PurgeInv

\* A purge that is emitted has a live twin, or its operator allows orphans.
LEMMA EmitInv ==
  ASSUME PurgeInv, EmitPurges
  PROVE  PurgeInv'
<1>1. PICK i \in purge.targets :
        /\ purgeLog' = Append(purgeLog,
             [type |-> "purge", item |-> i, orphans |-> purge.orphans])
        /\ purge' = [purge EXCEPT !.targets = purge.targets \ {i}]
  BY DEF EmitPurges
<1>. DEFINE e == [type |-> "purge", item |-> i, orphans |-> purge.orphans]
<1>2. UNCHANGED holds
  BY DEF EmitPurges
<1>3. e \in PurgeEvent /\ (~e.orphans => Alive(e.item))
  BY DEF PurgeInv, PurgeTypes, PurgeEvent
<1>4. purgeLog' = Append(purgeLog, e)
  BY <1>1
<1>. HIDE DEF e
<1>5. /\ purgeLog' \in Seq(PurgeEvent)
      /\ \A k \in 1..Len(purgeLog') :
           purgeLog'[k].type = "purge" /\ ~purgeLog'[k].orphans
             => AliveNext(purgeLog'[k].item)
  BY <1>2, <1>3, <1>4, AppendInv
<1>6. purge' = [pc |-> purge.pc, orphans |-> purge.orphans, last |-> purge.last,
                found |-> purge.found, all |-> purge.all,
                targets |-> purge.targets \ {i}]
  BY <1>1 DEF PurgeInv, PurgeTypes
<1>7. PurgeTypes'
  BY <1>2, <1>5, <1>6 DEF PurgeInv, PurgeTypes
<1>. QED  BY <1>2, <1>5, <1>6, <1>7 DEF PurgeInv, Alive, AliveNext

LEMMA UpsertInv ==
  ASSUME PurgeInv, EmitUpsert
  PROVE  PurgeInv'
<1>1. PICK i \in Item : purgeLog' = Append(purgeLog, [type |-> "upsert", item |-> i])
  BY DEF EmitUpsert
<1>2. UNCHANGED <<holds, purge>>
  BY DEF EmitUpsert
<1>. DEFINE e == [type |-> "upsert", item |-> i]
<1>3. e \in PurgeEvent /\ e.type # "purge"
  BY DEF PurgeEvent
<1>4. purgeLog' = Append(purgeLog, e)
  BY <1>1
<1>. HIDE DEF e
<1>5. /\ purgeLog' \in Seq(PurgeEvent)
      /\ \A k \in 1..Len(purgeLog') :
           purgeLog'[k].type = "purge" /\ ~purgeLog'[k].orphans
             => AliveNext(purgeLog'[k].item)
  BY <1>2, <1>3, <1>4, AppendInv
<1>6. PurgeTypes'
  BY <1>2, <1>5 DEF PurgeInv, PurgeTypes
<1>. QED  BY <1>2, <1>5, <1>6 DEF PurgeInv, Alive, AliveNext

LEMMA PurgeNextInv == PurgeInv /\ [PurgeNext]_purgeVars => PurgeInv'
<1>. SUFFICES ASSUME PurgeInv, [PurgeNext]_purgeVars PROVE PurgeInv'
  OBVIOUS
<1>1. CASE EmitUpsert  BY <1>1, UpsertInv
<1>2. CASE ApplyPurgeLog  BY <1>2, ApplyKeepsLive
<1>3. CASE StartPurge \/ EndPurge
  <2>1. /\ UNCHANGED <<holds, purgeLog>>
        /\ \E o \in BOOLEAN, pc \in {"idle", "scan"} :
             purge' = [pc |-> pc, orphans |-> o, last |-> -1,
                       found |-> {}, all |-> {}, targets |-> {}]
    BY <1>3 DEF StartPurge, EndPurge, PurgeIdle
  <2>2. PurgeTypes'
    BY <2>1 DEF PurgeInv, PurgeTypes
  <2>3. purge'.all = {} /\ purge'.targets = {}
    BY <2>1
  <2>. QED  BY <2>1, <2>2, <2>3, RunInv
<1>4. CASE ScanPage  BY <1>4, ScanInv
<1>5. CASE PartitionByTwin  BY <1>5, PartitionInv
<1>6. CASE EmitPurges  BY <1>6, EmitInv
<1>7. CASE UNCHANGED purgeVars
  BY <1>7 DEF purgeVars, PurgeInv, PurgeTypes, Alive, AliveNext
<1>. QED  BY <1>1, <1>2, <1>3, <1>4, <1>5, <1>6, <1>7 DEF PurgeNext

\* A purge that takes the left-over subject away was allowed orphans, or its twin
\* is alive.
LEMMA StepKeepsLastCopy ==
  ASSUME PurgeInv, [PurgeNext]_purgeVars, NEW i \in Item,
         \A side \in Side : holds'[<<i, side>>] = "nothing",
         \E side \in Side : holds[<<i, side>>] # "nothing"
  PROVE  Head(purgeLog).orphans
<1>. DEFINE e == Head(purgeLog)
<1>1. ApplyPurgeLog
  <2>1. CASE UNCHANGED holds  BY <2>1 DEF Side
  <2>2. CASE PurgeNext
    BY <2>1, <2>2 DEF PurgeNext, EmitUpsert, StartPurge, ScanPage, PartitionByTwin,
                      EmitPurges, EndPurge
  <2>. QED  BY <2>1, <2>2 DEF purgeVars
<1>2. purgeLog \in Seq(PurgeEvent) /\ purgeLog # <<>> /\ holds \in [Item \X Side -> Holding]
  BY <1>1 DEF ApplyPurgeLog, PurgeInv, PurgeTypes
<1>3. e \in PurgeEvent /\ 1 \in 1..Len(purgeLog) /\ e = purgeLog[1]
  BY <1>2
<1>4. e.item \in Item
  BY <1>3 DEF PurgeEvent
<1>5. ~Alive(i)
  BY <1>1, ApplyKeepsLive DEF Alive, AliveNext, Side
<1>6. /\ e.type # "upsert"
      /\ holds' = [holds EXCEPT ![<<e.item, "left">>] = "nothing"]
  <2>1. holds' # [holds EXCEPT ![<<e.item, "live">>] = "facts"]
    BY <1>2, <1>4, <1>5 DEF Alive, AliveNext, Side
  <2>2. holds' # holds
    OBVIOUS
  <2>. QED  BY <1>1, <2>1, <2>2 DEF ApplyPurgeLog
<1>7. e.item = i
  BY <1>2, <1>4, <1>6 DEF Side
<1>8. e.type = "purge" /\ e.orphans \in BOOLEAN
  BY <1>3, <1>6 DEF PurgeEvent
<1>. QED  BY <1>3, <1>5, <1>7, <1>8 DEF PurgeInv

\* Unless the operator allows orphans, no purge of purge_stranded_subjects.py or
\* purge_orphan_rollup_subjects.py takes the last copy of an item away, whatever
\* the graph did between the scan and the moment the sink applies the event.
THEOREM LastCopyIsKept == PurgeSpec => KeepsLastCopy
<1>. DEFINE NoneLost(i) == (\A side \in Side : holds'[<<i, side>>] = "nothing")
                       /\ (\E side \in Side : holds[<<i, side>>] # "nothing")
                         => Head(purgeLog).orphans
<1>1. PurgeInv /\ [PurgeNext]_purgeVars => \A i \in Item : NoneLost(i)
  BY StepKeepsLastCopy
<1>2. PurgeSpec => []PurgeInv
  BY PurgeInitInv, PurgeNextInv, PTL DEF PurgeSpec
<1>3. PurgeInv /\ [PurgeNext]_purgeVars => [\A i \in Item : NoneLost(i)]_purgeVars
  BY <1>1
<1>. QED  BY <1>2, <1>3, PTL DEF PurgeSpec, KeepsLastCopy

----------------------------------------------------------------------------
(* RebuildCompanies: an event that a page emits says of its entity what Neo4j *)
(* says, and its subject had nothing else to lose when it was selected.    *)

Predicate == Rewritten0 \union LinkPredicate
Described == [Subject -> SUBSET Predicate]
Rebuild == [entity : Entities, kind : {"none", "general", "fund"}, checked : Described]

RebuildTypes ==
  /\ subjects \in Described /\ rebuildLog \in Seq(Rebuild)
  /\ repair = [pc |-> repair.pc, select |-> repair.select, size |-> repair.size,
               last |-> repair.last, page |-> repair.page, checked |-> repair.checked,
               left |-> repair.left, rebuilt |-> repair.rebuilt]
  /\ repair.left \subseteq Entities /\ repair.page \subseteq Subject /\ repair.checked \in Described

\* An event that says what kind its entity is of says what Neo4j says of it, and
\* its entity had nothing else to lose; one that does not is about no fund.
Harmless(e, kind, checked) ==
  /\ kind = "fund" <=> node[e] = "fund"
  /\ kind # "none" => \A s \in Subject : s[2] = e => checked[s] \subseteq Rewritten0
IsHarmless(ev) == Harmless(ev.entity, ev.kind, ev.checked)

\* What is not held back may be emitted.
PageIsHarmless ==
  repair.pc = "emit" =>
    \A e \in repair.left : Harmless(e, KindOf(e), repair.checked)

Healed(e) == Rewritten0 \subseteq subjects[Home(e)]
InLog(e) == \E i \in 1..Len(rebuildLog) : rebuildLog[i].entity = e

RebuildInv ==
  /\ RebuildTypes /\ PageIsHarmless
  /\ \A i \in 1..Len(rebuildLog) : IsHarmless(rebuildLog[i])
  /\ repair.rebuilt \subseteq Entities
  /\ \A e \in repair.rebuilt : Healed(e) \/ InLog(e)

LEMMA TailIsShorter ==
  ASSUME NEW S, NEW q \in Seq(S), q # <<>>
  PROVE  Tail(q) # q
<1>. DEFINE n == Len(q)
            m == Len(Tail(q))
<1>1. m = n - 1 /\ n \in Nat
  BY HeadTailProperties, LenProperties
<1>2. Tail(q) = q => m = n
  OBVIOUS
<1>. HIDE DEF m, n
<1>. QED  BY <1>1, <1>2

LEMMA RebuildInitInv == RebuildInit => RebuildInv
<1>. SUFFICES ASSUME RebuildInit PROVE RebuildInv
  OBVIOUS
<1>1. repair = RepairIdle /\ rebuildLog = <<>>
  BY DEF RebuildInit
<1>2. subjects \in Described
  BY DEF RebuildInit, Described, Predicate, Rewritten0, LinkPredicate
<1>3. repair.checked \in Described
  BY <1>1 DEF RepairIdle, Described
<1>. QED
  BY <1>1, <1>2, <1>3 DEF RepairIdle, RebuildInv, RebuildTypes, PageIsHarmless

\* Steps of a run that leave triple store and log alone.
LEMMA RunKeepsInv ==
  ASSUME RebuildInv, UNCHANGED <<node, subjects, rebuildLog>>,
         NEW pc, NEW select, NEW size, NEW last, NEW page \in SUBSET Subject,
         NEW checked \in Described, NEW left \in SUBSET Entities,
         NEW rebuilt \in SUBSET repair.rebuilt,
         repair' = [pc |-> pc, select |-> select, size |-> size, last |-> last,
                    page |-> page, checked |-> checked, left |-> left, rebuilt |-> rebuilt],
         PageIsHarmless'
  PROVE  RebuildInv'
<1>1. RebuildTypes'
  BY DEF RebuildInv, RebuildTypes
<1>2. \A i \in 1..Len(rebuildLog)' : IsHarmless(rebuildLog[i])'
  BY DEF RebuildInv, IsHarmless, Harmless
<1>3. repair.rebuilt' \subseteq Entities /\ \A e \in repair.rebuilt' : (Healed(e) \/ InLog(e))'
  BY DEF RebuildInv, Healed, InLog, Home
<1>. QED  BY <1>1, <1>2, <1>3 DEF RebuildInv

\* A link more takes nothing away.
LEMMA AddLinkInv ==
  ASSUME RebuildInv, AddLink
  PROVE  RebuildInv'
<1>1. PICK s \in Subject, p \in LinkPredicate :
        subjects' = [subjects EXCEPT ![s] = @ \union {p}]
  BY DEF AddLink
<1>2. UNCHANGED <<node, rebuildLog, repair>>
  BY DEF AddLink
<1>3. subjects' \in Described /\ \A t \in Subject : subjects[t] \subseteq subjects'[t]
  BY <1>1 DEF RebuildInv, RebuildTypes, Described, Predicate
<1>4. RebuildTypes'
  BY <1>2, <1>3 DEF RebuildInv, RebuildTypes
<1>5. PageIsHarmless'
  BY <1>2 DEF RebuildInv, PageIsHarmless, Harmless, Rebuildable, OnPage, KindOf
<1>6. ASSUME NEW e \in repair.rebuilt PROVE (Healed(e) \/ InLog(e))'
  <2>1. Home(e) \in Subject
    BY DEF Home, Subject, RebuildInv
  <2>. QED  BY <1>2, <1>3, <2>1 DEF RebuildInv, Healed, InLog, Home
<1>. QED  BY <1>2, <1>4, <1>5, <1>6 DEF RebuildInv, IsHarmless, Harmless

\* What the sink's step does to the subjects of an entity and of the others.
LEMMA UpsertedSubjects ==
  ASSUME subjects \in Described, NEW ev \in Rebuild, IsHarmless(ev)
  PROVE  /\ Upserted(ev) \in Described
         /\ \A s \in Subject : s[2] # ev.entity => Upserted(ev)[s] = subjects[s]
         /\ Rewritten0 \subseteq Upserted(ev)[Home(ev.entity)]
         /\ ev.kind = "none" => \A s \in Subject : subjects[s] \subseteq Upserted(ev)[s]
<1>. DEFINE company == <<"Company", ev.entity>>
            fund == <<"InvestmentFund", ev.entity>>
<1>1. company \in Subject /\ fund \in Subject /\ company # fund
      /\ company[2] = ev.entity /\ fund[2] = ev.entity
  BY DEF Rebuild, Subject
<1>2. ev.kind \in {"none", "general", "fund"}
  BY DEF Rebuild
<1>3. Home(ev.entity) = IF ev.kind = "fund" THEN fund ELSE company
  BY DEF IsHarmless, Harmless, Home
<1>. DEFINE kept == subjects[company] \intersect {"sameAs"}
<1>4. Upserted(ev) =
        CASE ev.kind = "none" -> [subjects EXCEPT ![company] = subjects[company] \union Rewritten0]
          [] ev.kind = "general" -> [subjects EXCEPT ![company] = kept \union Rewritten0,
                                                     ![fund] = {}]
          [] ev.kind = "fund" -> [subjects EXCEPT ![company] = kept, ![fund] = Rewritten0]
  BY DEF Upserted
<1>5. kept \subseteq Predicate /\ Rewritten0 \subseteq Predicate
      /\ subjects[company] \subseteq Predicate
  BY <1>1 DEF Described, Predicate
<1>. HIDE DEF company, fund, kept
<1>6. CASE ev.kind = "none"
  BY <1>1, <1>3, <1>4, <1>5, <1>6 DEF Described
<1>7. CASE ev.kind = "general"
  BY <1>1, <1>3, <1>4, <1>5, <1>7 DEF Described
<1>8. CASE ev.kind = "fund"
  BY <1>1, <1>3, <1>4, <1>5, <1>8 DEF Described
<1>. QED  BY <1>2, <1>6, <1>7, <1>8

LEMMA HeadAndTail ==
  ASSUME RebuildInv, rebuildLog # <<>>
  PROVE  /\ Head(rebuildLog) \in Rebuild /\ Head(rebuildLog) = rebuildLog[1]
         /\ IsHarmless(Head(rebuildLog))
         /\ Tail(rebuildLog) \in Seq(Rebuild) /\ Len(Tail(rebuildLog)) = Len(rebuildLog) - 1
         /\ \A i \in 1..Len(Tail(rebuildLog)) :
              i + 1 \in 1..Len(rebuildLog) /\ Tail(rebuildLog)[i] = rebuildLog[i + 1]
<1>1. rebuildLog \in Seq(Rebuild) /\ 1 \in 1..Len(rebuildLog)
  BY DEF RebuildInv, RebuildTypes
<1>2. IsHarmless(rebuildLog[1])
  BY <1>1 DEF RebuildInv
<1>. QED  BY <1>1, <1>2

\* Each event heals its entity, and an entity that was healed stays so.
LEMMA SinkInv ==
  ASSUME RebuildInv, SinkApplies
  PROVE  RebuildInv'
<1>. DEFINE ev == Head(rebuildLog)
<1>1. /\ rebuildLog # <<>> /\ subjects' = Upserted(ev) /\ rebuildLog' = Tail(rebuildLog)
      /\ UNCHANGED <<node, repair>>
  BY DEF SinkApplies
<1>2. /\ ev \in Rebuild /\ ev = rebuildLog[1] /\ IsHarmless(ev)
      /\ rebuildLog' \in Seq(Rebuild) /\ Len(rebuildLog') = Len(rebuildLog) - 1
      /\ \A i \in 1..Len(rebuildLog') :
           i + 1 \in 1..Len(rebuildLog) /\ rebuildLog'[i] = rebuildLog[i + 1]
  BY <1>1, HeadAndTail
<1>. HIDE DEF ev
<1>3. /\ subjects' \in Described
      /\ \A s \in Subject : s[2] # ev.entity => subjects'[s] = subjects[s]
      /\ Rewritten0 \subseteq subjects'[Home(ev.entity)]
  BY <1>1, <1>2, UpsertedSubjects DEF RebuildInv, RebuildTypes
<1>4. RebuildTypes'
  BY <1>1, <1>2, <1>3 DEF RebuildInv, RebuildTypes
<1>5. PageIsHarmless'
  BY <1>1 DEF RebuildInv, PageIsHarmless, Harmless, Rebuildable, OnPage, KindOf
<1>6. \A i \in 1..Len(rebuildLog') : IsHarmless(rebuildLog'[i])
  BY <1>2 DEF RebuildInv
<1>7. ASSUME NEW e \in repair.rebuilt PROVE (Healed(e) \/ InLog(e))'
  <2>1. Home(e) \in Subject /\ Home(e)[2] = e /\ Home(e)' = Home(e)
    BY <1>1 DEF Home, Subject, RebuildInv
  <2>2. CASE e = ev.entity
    BY <1>3, <2>1, <2>2 DEF Healed
  <2>3. CASE e # ev.entity /\ Healed(e)
    BY <1>3, <2>1, <2>3 DEF Healed
  <2>4. CASE e # ev.entity /\ InLog(e)
    <3>1. PICK i \in 1..Len(rebuildLog) : rebuildLog[i].entity = e
      BY <2>4 DEF InLog
    <3>2. i # 1 /\ i - 1 \in 1..Len(rebuildLog')
      BY <1>2, <2>4, <3>1, HeadAndTail DEF RebuildInv, RebuildTypes
    <3>3. rebuildLog'[i - 1] = rebuildLog[i]
      BY <1>2, <3>2
    <3>. QED  BY <3>1, <3>2, <3>3 DEF InLog
  <2>. QED  BY <2>2, <2>3, <2>4 DEF RebuildInv
<1>8. \A i \in 1..Len(rebuildLog') : IsHarmless(rebuildLog[i])'
  BY <1>1, <1>6 DEF IsHarmless, Harmless
<1>. QED  BY <1>1, <1>4, <1>5, <1>7, <1>8 DEF RebuildInv

LEMMA IdleRepairInv ==
  ASSUME RebuildInv, UNCHANGED <<node, subjects, rebuildLog>>,
         NEW pc, pc # "emit", NEW select, NEW size, NEW last,
         repair' = [pc |-> pc, select |-> select, size |-> size, last |-> last, page |-> {},
                    checked |-> [s \in Subject |-> {}], left |-> {}, rebuilt |-> {}]
  PROVE  RebuildInv'
<1>2. [s \in Subject |-> {}] \in Described
  BY DEF Described
<1>3. PageIsHarmless'
  BY DEF PageIsHarmless
<1>. DEFINE none == [s \in Subject |-> {}]
<1>4. repair' = [pc |-> pc, select |-> select, size |-> size, last |-> last, page |-> {},
                 checked |-> none, left |-> {}, rebuilt |-> {}]
  OBVIOUS
<1>. HIDE DEF none
<1>5. {} \in SUBSET Subject /\ {} \in SUBSET Entities /\ {} \in SUBSET repair.rebuilt /\ none \in Described
  BY <1>2 DEF none
<1>. QED  BY <1>3, <1>4, <1>5, RunKeepsInv

LEMMA StartRepairInv ==
  ASSUME RebuildInv, StartRepair
  PROVE  RebuildInv'
<1>1. PICK select \in {"stripped", "labelless"}, size \in PageSizes :
        \E last \in IF select = "labelless" THEN {0, MaxEntity} ELSE {0} :
          repair' = [RepairIdle EXCEPT !.pc = "select", !.select = select,
                                       !.size = size, !.last = last]
  BY DEF StartRepair
<1>2. PICK last \in IF select = "labelless" THEN {0, MaxEntity} ELSE {0} :
        repair' = [RepairIdle EXCEPT !.pc = "select", !.select = select,
                                     !.size = size, !.last = last]
  BY <1>1
<1>3. repair' = [pc |-> "select", select |-> select, size |-> size, last |-> last,
                 page |-> {}, checked |-> [s \in Subject |-> {}], left |-> {}, rebuilt |-> {}]
  BY <1>2 DEF RepairIdle
<1>. QED  BY <1>3, IdleRepairInv DEF StartRepair

LEMMA LeaveInv ==
  ASSUME RebuildInv, LeaveRepair \/ RepairDies
  PROVE  RebuildInv'
<1>1. repair' = [pc |-> "idle", select |-> "none", size |-> 1, last |-> 0, page |-> {},
                 checked |-> [s \in Subject |-> {}], left |-> {}, rebuilt |-> {}]
  BY DEF LeaveRepair, RepairDies, RepairIdle
<1>. QED  BY <1>1, IdleRepairInv DEF LeaveRepair, RepairDies

LEMMA SelectInv ==
  ASSUME RebuildInv, SelectPage \/ EndRepair
  PROVE  RebuildInv'
<1>1. PICK last :
        \E pc \in {"check", "done"}, page \in SUBSET Subject :
          repair' = [repair EXCEPT !.pc = pc, !.page = page, !.last = last]
  <2>1. CASE EndRepair
    <3>1. repair' = [repair EXCEPT !.pc = "done", !.page = repair.page, !.last = repair.last]
      BY <2>1 DEF EndRepair, RebuildInv, RebuildTypes
    <3>. QED  BY <3>1 DEF RebuildInv, RebuildTypes
  <2>2. CASE SelectPage
    <3>1. FirstOf(Damaged) \subseteq Subject
      BY DEF FirstOf, Damaged
    <3>. QED  BY <2>2, <3>1 DEF SelectPage
  <2>. QED  BY <2>1, <2>2
<1>p. PICK pc \in {"check", "done"}, page \in SUBSET Subject :
        repair' = [repair EXCEPT !.pc = pc, !.page = page, !.last = last]
  BY <1>1
<1>2. repair' = [pc |-> pc, select |-> repair.select, size |-> repair.size, last |-> last,
                 page |-> page, checked |-> repair.checked, left |-> repair.left,
                 rebuilt |-> repair.rebuilt]
  BY <1>p DEF RebuildInv, RebuildTypes
<1>3. PageIsHarmless'
  BY <1>2 DEF PageIsHarmless
<1>. QED
  BY <1>2, <1>3, RunKeepsInv DEF SelectPage, EndRepair, RebuildInv, RebuildTypes

\* The kind that a payload carries is the one that Neo4j has of its entity.
LEMMA KindIsOfNode ==
  ASSUME NEW e \in Rebuildable
  PROVE  /\ KindOf(e) \in {"none", "general", "fund"}
         /\ KindOf(e) = "fund" <=> node[e] = "fund"
  BY DEF Rebuildable, KindOf

LEMMA CheckInv ==
  ASSUME RebuildInv, CheckPage
  PROVE  RebuildInv'
<1>. DEFINE left == {e \in Rebuildable : ~Loses(e)}
<1>1. repair' = [pc |-> "emit", select |-> repair.select, size |-> repair.size,
                 last |-> repair.last, page |-> repair.page, checked |-> subjects,
                 left |-> left, rebuilt |-> repair.rebuilt]
  BY DEF CheckPage, RebuildInv, RebuildTypes
<1>2. UNCHANGED <<node, subjects, rebuildLog>>
  BY DEF CheckPage
<1>3. \A e \in left : Harmless(e, KindOf(e), subjects)
  BY KindIsOfNode DEF Harmless, Loses
<1>4. left \subseteq Entities /\ \A e : KindOf(e)' = KindOf(e)
  BY <1>1, <1>2 DEF Rebuildable, OnPage, KindOf, RebuildInv, RebuildTypes, Subject
<1>. HIDE DEF left
<1>5. PageIsHarmless'
  BY <1>1, <1>2, <1>3, <1>4 DEF PageIsHarmless, Harmless
<1>. QED  BY <1>1, <1>2, <1>4, <1>5, RunKeepsInv DEF RebuildInv, RebuildTypes

LEMMA EntitiesAreFinite ==
  ASSUME NEW S \in SUBSET Entities
  PROVE  IsFiniteSet(S) /\ Cardinality(S) \in Nat /\ S \subseteq Int
<1>1. IsFiniteSet(Entities) /\ Entities \subseteq Int
  BY RebuildAssumption, FS_Interval DEF Entities
<1>. QED  BY <1>1, FS_Subset, FS_CardinalityType

\* An increasing order of a finite set of numbers leaves none of them out.
LEMMA OrderIsOnto ==
  ASSUME NEW S \in SUBSET Entities, NEW order \in [1..Cardinality(S) -> S],
         \A i, j \in DOMAIN order : i < j => order[i] < order[j]
  PROVE  \A e \in S : \E i \in 1..Cardinality(S) : order[i] = e
<1>1. IsFiniteSet(S) /\ Cardinality(S) \in Nat /\ S \subseteq Int
  BY EntitiesAreFinite
<1>2. Cardinality(1..Cardinality(S)) = Cardinality(S)
  BY <1>1, FS_Interval
<1>3. order \in Injection(1..Cardinality(S), S)
  <2>1. \A i, j \in 1..Cardinality(S) : order[i] = order[j] => i = j
    <3>. SUFFICES ASSUME NEW i \in 1..Cardinality(S), NEW j \in 1..Cardinality(S), i # j
                  PROVE  order[i] # order[j]
      OBVIOUS
    <3>1. i < j \/ j < i
      OBVIOUS
    <3>2. order[i] \in Int /\ order[j] \in Int
      BY <1>1
    <3>. QED  BY <3>1, <3>2
  <2>. QED  BY <2>1 DEF Injection, IsInjective
<1>4. order \in Surjection(1..Cardinality(S), S)
  BY <1>1, <1>2, <1>3, FS_Injection
<1>. QED  BY <1>4 DEF Surjection

\* A page's events join the others.
LEMMA LogGrows ==
  ASSUME RebuildInv, NEW more \in Seq(Rebuild), rebuildLog' = rebuildLog \o more
  PROVE  /\ rebuildLog' \in Seq(Rebuild) /\ Len(rebuildLog') = Len(rebuildLog) + Len(more)
         /\ \A i \in 1..Len(rebuildLog) : rebuildLog'[i] = rebuildLog[i]
         /\ \A i \in 1..Len(more) : rebuildLog'[Len(rebuildLog) + i] = more[i]
         /\ Len(rebuildLog) \in Nat /\ Len(more) \in Nat
<1>1. rebuildLog \in Seq(Rebuild)
  BY DEF RebuildInv, RebuildTypes
<1>. QED  BY <1>1

\* Every entity that is counted as rebuilt has its event.
LEMMA EmitPageInv ==
  ASSUME RebuildInv, EmitPage
  PROVE  RebuildInv'
<1>. DEFINE mine == {e \in repair.left :
                       Cardinality({d \in repair.left : d < e}) < EmitBatch}
<1>1. PICK order \in [1..Cardinality(mine) -> mine] :
        /\ \A i, j \in DOMAIN order : i < j => order[i] < order[j]
        /\ rebuildLog' = rebuildLog \o
             [i \in DOMAIN order |-> [entity |-> order[i], kind |-> KindOf(order[i]),
                                      checked |-> repair.checked]]
  BY DEF EmitPage
<1>. DEFINE n == Cardinality(mine)
            new == [i \in 1..n |-> [entity |-> order[i], kind |-> KindOf(order[i]),
                                    checked |-> repair.checked]]
<1>pc. PICK pc : pc = IF repair.left = mine THEN "select" ELSE "emit"
  OBVIOUS
<1>page. PICK page : page = IF repair.left = mine THEN {} ELSE repair.page
  OBVIOUS
<1>2. repair' = [pc |-> pc, select |-> repair.select, size |-> repair.size,
                 last |-> repair.last, page |-> page, checked |-> repair.checked,
                 left |-> repair.left \ mine, rebuilt |-> repair.rebuilt \union mine]
  BY <1>pc, <1>page DEF EmitPage, RebuildInv, RebuildTypes
<1>3. UNCHANGED <<node, subjects>> /\ repair.pc = "emit"
  BY DEF EmitPage
<1>4. mine \subseteq repair.left /\ mine \subseteq Entities
  BY DEF RebuildInv, RebuildTypes
<1>5. n \in Nat
  BY <1>4, EntitiesAreFinite
<1>6. \A e \in mine : Harmless(e, KindOf(e), repair.checked)
                      /\ KindOf(e) \in {"none", "general", "fund"}
  BY <1>3, <1>4 DEF RebuildInv, PageIsHarmless, KindOf
<1>7. \A e \in mine : \E i \in 1..n : order[i] = e
  BY <1>1, <1>4, OrderIsOnto
<1>. HIDE DEF mine, n
<1>8. /\ new \in Seq(Rebuild) /\ Len(new) = n
      /\ \A i \in 1..n : new[i].entity = order[i] /\ IsHarmless(new[i])
  <2>1. \A i \in 1..n : order[i] \in mine
    BY <1>1 DEF n
  <2>2. \A i \in 1..n : new[i] \in Rebuild
    BY <1>4, <1>6, <2>1 DEF Rebuild, RebuildInv, RebuildTypes
  <2>3. \A i \in 1..n : IsHarmless(new[i])
    BY <1>6, <2>1 DEF IsHarmless
  <2>. QED  BY <1>5, <2>2, <2>3
<1>9. rebuildLog' = rebuildLog \o new
  <2>1. DOMAIN order = 1..n
    BY <1>1 DEF n
  <2>. QED  BY <1>1, <2>1
<1>. HIDE DEF new
<1>10. /\ rebuildLog' \in Seq(Rebuild) /\ Len(rebuildLog') = Len(rebuildLog) + n
       /\ \A i \in 1..Len(rebuildLog) : rebuildLog'[i] = rebuildLog[i]
       /\ \A i \in 1..n : rebuildLog'[Len(rebuildLog) + i] = new[i]
       /\ Len(rebuildLog) \in Nat
  <2>1. PICK more \in Seq(Rebuild) : more = new /\ Len(more) = n
    BY <1>8
  <2>2. rebuildLog' = rebuildLog \o more
    BY <1>9, <2>1
  <2>. QED  BY <2>1, <2>2, LogGrows
<1>11. RebuildTypes'
  BY <1>page, <1>2, <1>3, <1>10 DEF RebuildInv, RebuildTypes
<1>12. \A i \in 1..Len(rebuildLog') : IsHarmless(rebuildLog'[i])
  <2>. SUFFICES ASSUME NEW i \in 1..Len(rebuildLog') PROVE IsHarmless(rebuildLog'[i])
    OBVIOUS
  <2>1. CASE i \in 1..Len(rebuildLog)
    BY <1>10, <2>1 DEF RebuildInv
  <2>2. CASE i \notin 1..Len(rebuildLog)
    <3>1. i - Len(rebuildLog) \in 1..n /\ i = Len(rebuildLog) + (i - Len(rebuildLog))
      BY <1>5, <1>10, <2>2
    <3>2. rebuildLog'[i] = new[i - Len(rebuildLog)]
      BY <1>10, <3>1
    <3>. QED  BY <1>8, <3>1, <3>2
  <2>. QED  BY <2>1, <2>2
<1>13. \A i \in 1..Len(rebuildLog') : IsHarmless(rebuildLog[i])'
  BY <1>3, <1>12 DEF IsHarmless, Harmless
<1>14. ASSUME NEW e \in repair.rebuilt \union mine PROVE (Healed(e) \/ InLog(e))'
  <2>1. CASE e \in mine
    <3>1. PICK i \in 1..n : order[i] = e
      BY <1>7, <2>1
    <3>2. /\ Len(rebuildLog) + i \in 1..Len(rebuildLog')
          /\ rebuildLog'[Len(rebuildLog) + i].entity = e
      BY <1>5, <1>8, <1>10, <3>1
    <3>. QED  BY <3>2 DEF InLog
  <2>2. CASE e \in repair.rebuilt /\ Healed(e)
    BY <1>3, <2>2 DEF Healed, Home
  <2>3. CASE e \in repair.rebuilt /\ InLog(e)
    <3>1. PICK i \in 1..Len(rebuildLog) : rebuildLog[i].entity = e
      BY <2>3 DEF InLog
    <3>2. i \in 1..Len(rebuildLog') /\ rebuildLog'[i].entity = e
      BY <1>5, <1>10, <3>1
    <3>. QED  BY <3>2 DEF InLog
  <2>. QED  BY <1>14, <2>1, <2>2, <2>3 DEF RebuildInv
<1>15. PageIsHarmless'
  <2>1. CASE pc = "select"
    BY <1>2, <2>1 DEF PageIsHarmless
  <2>2. CASE pc = "emit"
    <3>1. page = repair.page /\ repair'.select = repair.select /\ repair'.page = repair.page
          /\ repair'.checked = repair.checked /\ repair'.left \subseteq repair.left
      BY <1>pc, <1>page, <1>2, <2>2
    <3>2. \A e : KindOf(e)' = KindOf(e)
      BY <1>3, <3>1 DEF KindOf
    <3>. QED  BY <1>3, <3>1, <3>2 DEF RebuildInv, PageIsHarmless, Harmless
  <2>. QED  BY <1>pc, <2>1, <2>2
<1>16. repair.rebuilt' = repair.rebuilt \union mine
  BY <1>2
<1>17. \A e \in repair.rebuilt' : (Healed(e) \/ InLog(e))'
  BY <1>14, <1>16
<1>18. repair.rebuilt' \subseteq Entities
  BY <1>4, <1>16 DEF RebuildInv
<1>. QED  BY <1>11, <1>13, <1>15, <1>17, <1>18 DEF RebuildInv

LEMMA RebuildNextInv == RebuildInv /\ [RebuildNext]_rebuildVars => RebuildInv'
<1>1. RebuildInv /\ UNCHANGED rebuildVars => RebuildInv'
  BY DEF rebuildVars, RebuildInv, RebuildTypes, PageIsHarmless, Harmless, IsHarmless,
         Rebuildable, OnPage, KindOf, Healed, InLog, Home
<1>. QED
  BY <1>1, AddLinkInv, SinkInv, StartRepairInv, LeaveInv, SelectInv, CheckInv, EmitPageInv
     DEF RebuildNext

\* Only the sink takes an event off the log.
LEMMA OnlySinkTakes ==
  ASSUME RebuildInv, [RebuildNext]_rebuildVars, rebuildLog # <<>>,
         rebuildLog' = Tail(rebuildLog)
  PROVE  SinkApplies
<1>1. rebuildLog \in Seq(Rebuild) /\ Len(rebuildLog') = Len(rebuildLog) - 1
      /\ Len(rebuildLog) \in Nat
  BY HeadAndTail DEF RebuildInv, RebuildTypes
<1>2. rebuildLog' # rebuildLog
  BY <1>1, TailIsShorter
<1>3. ~EmitPage
  <2>. SUFFICES ASSUME EmitPage PROVE FALSE
    OBVIOUS
  <2>. DEFINE mine == {e \in repair.left :
                         Cardinality({d \in repair.left : d < e}) < EmitBatch}
              n == Cardinality(mine)
  <2>1. PICK order \in [1..n -> mine] :
          rebuildLog' = rebuildLog \o
            [i \in DOMAIN order |-> [entity |-> order[i], kind |-> KindOf(order[i]),
                                     checked |-> repair.checked]]
    BY DEF EmitPage
  <2>2. mine \subseteq Entities
    BY DEF RebuildInv, RebuildTypes
  <2>3. n \in Nat
    BY <2>2, EntitiesAreFinite
  <2>. HIDE DEF mine, n
  <2>4. DOMAIN order = 1..n
    BY <2>1
  <2>. DEFINE f(i) == [entity |-> order[i], kind |-> KindOf(order[i]),
                       checked |-> repair.checked]
              new == [i \in 1..n |-> f(i)]
  <2>5. new \in Seq({f(i) : i \in 1..n}) /\ Len(new) = n
    BY <2>3
  <2>6. rebuildLog' = rebuildLog \o new
    BY <2>1, <2>4
  <2>. HIDE DEF new, f
  <2>7. Len(rebuildLog') = Len(rebuildLog) + n
    <3>1. rebuildLog \in Seq(Rebuild \union {f(i) : i \in 1..n})
          /\ new \in Seq(Rebuild \union {f(i) : i \in 1..n})
      BY <1>1, <2>5
    <3>. QED  BY <2>5, <2>6, <3>1
  <2>. QED  BY <1>1, <2>3, <2>7
<1>. QED
  BY <1>2, <1>3 DEF RebuildNext, rebuildVars, AddLink, StartRepair, SelectPage, EndRepair,
                    LeaveRepair, CheckPage, RepairDies

LEMMA SinkLosesNoLink ==
  ASSUME RebuildInv, SinkApplies, NEW s \in Subject
  PROVE  LET had == Head(rebuildLog).checked[s] IN
         /\ subjects[s] \intersect had \intersect LinkPredicate \subseteq subjects'[s]
         /\ "sameAs" \in had /\ "type" \in subjects[s] => "type" \in subjects'[s]
<1>. DEFINE ev == Head(rebuildLog)
<1>1. ev \in Rebuild /\ IsHarmless(ev) /\ subjects \in Described /\ subjects' = Upserted(ev)
  BY HeadAndTail DEF SinkApplies, RebuildInv, RebuildTypes
<1>. HIDE DEF ev
<1>2. CASE ev.kind = "none" \/ s[2] # ev.entity
  <2>1. subjects[s] \subseteq subjects'[s]
    BY <1>1, <1>2, UpsertedSubjects
  <2>. QED  BY <2>1 DEF ev
<1>3. CASE ev.kind # "none" /\ s[2] = ev.entity
  <2>1. ev.checked[s] \subseteq Rewritten0
    BY <1>1, <1>3 DEF IsHarmless, Harmless
  <2>2. Rewritten0 \intersect LinkPredicate = {} /\ "sameAs" \notin Rewritten0
    BY DEF Rewritten0, LinkPredicate
  <2>. QED  BY <2>1, <2>2 DEF ev
<1>. QED  BY <1>2, <1>3

\* rebuild_stripped_companies.py: once the log of a finished run is applied, all
\* that the run counts as rebuilt is described where readers look for it, and no
\* rebuild costs a subject a link that it had when its page was checked, for any
\* entities and page sizes, and runs that die or are repeated.
THEOREM RebuildsAreSafe == RebuildSpec => RebuildIsSafe
<1>. DEFINE Keeps ==
       rebuildLog # <<>> /\ rebuildLog' = Tail(rebuildLog) =>
         \A s \in Subject :
           LET had == Head(rebuildLog).checked[s] IN
           /\ subjects[s] \intersect had \intersect LinkPredicate \subseteq subjects'[s]
           /\ "sameAs" \in had /\ "type" \in subjects[s] => "type" \in subjects'[s]
<1>1. RebuildInv => RebuildHeals
  <2>. SUFFICES ASSUME RebuildInv, rebuildLog = <<>> PROVE \A e \in repair.rebuilt : Healed(e)
    BY DEF RebuildHeals, Healed
  <2>1. Len(rebuildLog) = 0
    OBVIOUS
  <2>. QED  BY <2>1 DEF RebuildInv, InLog
<1>2. RebuildInv /\ [RebuildNext]_rebuildVars => [Keeps]_rebuildVars
  BY OnlySinkTakes, SinkLosesNoLink
<1>3. RebuildSpec => []RebuildInv
  BY RebuildInitInv, RebuildNextInv, PTL DEF RebuildSpec
<1>. QED
  BY <1>1, <1>2, <1>3, PTL DEF RebuildSpec, RebuildIsSafe, RebuildLosesNoLink

----------------------------------------------------------------------------
(* GraphRepairs: a notice keeps its award until its contract is final, and a *)
(* final contract has the award of the notice that it took.                *)

GraphTypes ==
  /\ label \in [Notice -> {"absent", "Contract", "Notice"}] /\ linked \subseteq Notice
  /\ entity \in [Keys -> {"absent", "bare", "final"}]
  /\ DOMAIN taken = Keys /\ DOMAIN wonBy = Notice
  /\ wonBy = [n \in Notice |-> wonBy[n]]
  /\ migration \in {"idle", "relabel", "project", "finalize", "strip"}

\* A notice has its award until its contract is final.
HasAward(n) == <<n, wonBy[n]>> \in noticeEdges
Settled(n) == label[n] = "Notice" /\ n \in linked /\ entity[KeyOf[n]] = "final"
AwardsWait == \A n \in Notice : label[n] # "absent" => HasAward(n) \/ Settled(n)

\* A final contract has the award of the notice that it took.
FinalHas ==
  \A k \in Keys : entity[k] = "final" =>
    /\ taken[k] \in linked /\ KeyOf[taken[k]] = k
    /\ <<k, wonBy[taken[k]]>> \in entityEdges

\* A notice of a contract is relabelled, and its contract is there.
LinksHold == \A n \in linked : label[n] = "Notice" /\ entity[KeyOf[n]] # "absent"

\* What a phase leaves behind for the next ones.
PhasesDone ==
  /\ migration \in {"finalize", "strip"} => \A n \in Notice : label[n] = "Notice" => n \in linked
  /\ migration = "strip" => \A n \in linked : entity[KeyOf[n]] = "final"

GraphInv == GraphTypes /\ AwardsWait /\ FinalHas /\ LinksHold /\ PhasesDone

LEMMA KeyIsAKey == \A n \in Notice : KeyOf[n] \in Keys
  BY DEF Keys

LEMMA KeysAreFinite == IsFiniteSet(Keys)
<1>. DEFINE f == [n \in Notice |-> KeyOf[n]]
<1>1. f \in Surjection(Notice, Keys)
  BY DEF Surjection, Keys
<1>. QED  BY <1>1, FS_Surjection, RepairsAssumption

\* A batch that is not full has every row.
LEMMA DrainedBatch ==
  ASSUME NEW ns \in Batches, IsFiniteSet(RowsFound)
  PROVE  ns \subseteq RowsFound /\ (Drained(Cardinality(ns)) => ns = RowsFound)
<1>. DEFINE all == Cardinality(RowsFound)
<1>1. all \in Nat /\ MoveBatch \in Nat
  BY FS_CardinalityType, RepairsAssumption
<1>2. Min({MoveBatch, all}) \in {MoveBatch, all}
  <2>1. \E x \in {MoveBatch, all} : \A y \in {MoveBatch, all} : x =< y
    BY <1>1, MoveBatch <= all \/ all <= MoveBatch
  <2>. QED  BY <2>1 DEF Min
<1>3. ns \subseteq RowsFound /\ Cardinality(ns) = Min({MoveBatch, all})
  BY DEF Batches, kSubset
<1>4. CASE Cardinality(ns) = MoveBatch
  BY <1>1, <1>3, <1>4 DEF Drained
<1>5. CASE Cardinality(ns) = all
  BY <1>3, <1>5, FS_Subset
<1>. QED  BY <1>2, <1>3, <1>4, <1>5

LEMMA LowestRank ==
  ASSUME NEW T, T \subseteq Nat, T # {}
  PROVE  \E x \in T : \A y \in T : x <= y
<1>. DEFINE Less == {ss \in Nat \X Nat : ss[1] < ss[2]}
<1>1. IsWellFoundedOn(Less, Nat)
  BY NatLessThanWellFounded DEF OpToRel
<1>2. ASSUME NEW x \in Nat, NEW y \in Nat, x < y PROVE <<x, y>> \in Less
  BY <1>2
<1>. HIDE DEF Less
<1>3. PICK x \in T : \A y \in T : ~(<<y, x>> \in Less)
  BY <1>1, WFMin, Zenon
<1>4. ASSUME NEW y \in T PROVE x <= y
  <2>1. x \in Nat /\ y \in Nat
    OBVIOUS
  <2>2. ~(y < x)
    BY <1>2, <1>3, <2>1, Zenon
  <2>. QED  BY <2>1, <2>2
<1>. QED  BY <1>4

\* A contract with notices has a canonical one.
LEMMA CanonicalIsLinked ==
  ASSUME GraphTypes, NEW k, \E n \in linked : KeyOf[n] = k
  PROVE  Canonical(k) \in linked /\ KeyOf[Canonical(k)] = k
<1>. DEFINE T == {Rank[n] : n \in {m \in linked : KeyOf[m] = k}}
<1>1. T \subseteq Nat /\ T # {}
  BY RepairsAssumption DEF GraphTypes
<1>2. PICK x \in T : \A y \in T : x <= y
  BY <1>1, LowestRank
<1>3. PICK n \in linked : KeyOf[n] = k /\ Rank[n] = x
  BY <1>2
<1>4. \A m \in linked : KeyOf[m] = k => Rank[n] <= Rank[m]
  BY <1>2, <1>3
<1>. QED  BY <1>3, <1>4 DEF Canonical

LEMMA GraphInitInv == GraphRepairsInit => GraphInv
  BY DEF GraphRepairsInit, GraphInv, GraphTypes, AwardsWait, FinalHas, LinksHold,
         PhasesDone, Keys

LEMMA SinkNoticeInv ==
  ASSUME GraphInv, SinkWritesNotice
  PROVE  GraphInv'
<1>1. PICK n \in Notice :
        /\ label[n] = "absent" /\ label' = [label EXCEPT ![n] = "Contract"]
        /\ noticeEdges' = noticeEdges \union {<<n, WinnerOf[n]>>}
        /\ wonBy' = [wonBy EXCEPT ![n] = WinnerOf[n]]
  BY DEF SinkWritesNotice
<1>2. UNCHANGED <<linked, entity, taken, entityEdges, migration>>
  BY DEF SinkWritesNotice
<1>3. n \notin linked
  BY <1>1 DEF GraphInv, LinksHold
<1>4. /\ label'[n] = "Contract" /\ wonBy'[n] = WinnerOf[n]
      /\ \A m \in Notice \ {n} : label'[m] = label[m] /\ wonBy'[m] = wonBy[m]
  BY <1>1 DEF GraphInv, GraphTypes
<1>5. GraphTypes'
  BY <1>1, <1>2 DEF GraphInv, GraphTypes
<1>6. AwardsWait'
  BY <1>1, <1>2, <1>4 DEF GraphInv, AwardsWait, HasAward, Settled
<1>7. FinalHas'
  BY <1>2, <1>3, <1>4 DEF GraphInv, FinalHas, GraphTypes
<1>8. LinksHold'
  BY <1>2, <1>3, <1>4 DEF GraphInv, LinksHold, GraphTypes
<1>9. PhasesDone'
  BY <1>2, <1>4 DEF GraphInv, PhasesDone
<1>. QED  BY <1>5, <1>6, <1>7, <1>8, <1>9 DEF GraphInv

\* A run that starts or dies owes no phase anything.
LEMMA PhaseInv ==
  ASSUME GraphInv, UNCHANGED <<label, linked, entity, taken, noticeEdges, entityEdges, wonBy>>,
         migration' \in {"idle", "relabel", migration}
  PROVE  GraphInv'
<1>1. GraphTypes'
  BY DEF GraphInv, GraphTypes
<1>2. AwardsWait' /\ FinalHas' /\ LinksHold'
  BY DEF GraphInv, AwardsWait, HasAward, Settled, FinalHas, LinksHold
<1>. QED  BY <1>1, <1>2 DEF GraphInv, PhasesDone

LEMMA RelabelInv ==
  ASSUME GraphInv, Relabel
  PROVE  GraphInv'
<1>1. PICK ns \in Batches :
        /\ label' = [n \in Notice |-> IF n \in ns THEN "Notice" ELSE label[n]]
        /\ migration' = Phase(Cardinality(ns))
  BY DEF Relabel
<1>2. /\ migration = "relabel"
      /\ UNCHANGED <<linked, entity, taken, noticeEdges, entityEdges, wonBy>>
  BY DEF Relabel, companyVars
<1>3. migration' \in {"relabel", "project"}
  BY <1>1, <1>2 DEF Phase
<1>4. ns \subseteq {n \in Notice : label[n] = "Contract"}
  BY <1>2 DEF Batches, kSubset, RowsFound, ToRelabel
<1>5. \A n \in Notice : /\ label[n] = "Notice" => label'[n] = "Notice"
                        /\ label'[n] # "absent" => label[n] # "absent"
  BY <1>1, <1>4
<1>6. GraphTypes'
  BY <1>1, <1>2, <1>3 DEF GraphInv, GraphTypes
<1>7. AwardsWait'
  BY <1>2, <1>5 DEF GraphInv, AwardsWait, HasAward, Settled
<1>8. FinalHas' /\ LinksHold'
  BY <1>2, <1>5 DEF GraphInv, FinalHas, LinksHold, GraphTypes
<1>. QED  BY <1>3, <1>6, <1>7, <1>8 DEF GraphInv, PhasesDone

\* The last batch links every notice that was relabelled.
LEMMA ProjectInv ==
  ASSUME GraphInv, Project
  PROVE  GraphInv'
<1>1. PICK ns \in Batches :
        /\ linked' = linked \union ns
        /\ entity' = [k \in Keys |-> IF entity[k] = "absent" /\ \E n \in ns : KeyOf[n] = k
                                       THEN "bare" ELSE entity[k]]
        /\ migration' = Phase(Cardinality(ns))
  BY DEF Project
<1>2. /\ migration = "project" /\ RowsFound = ToProject
      /\ UNCHANGED <<label, taken, noticeEdges, entityEdges, wonBy>>
  BY DEF Project, RowsFound, companyVars
<1>3. IsFiniteSet(ToProject) /\ ToProject \subseteq Notice
  BY RepairsAssumption, FS_Subset DEF ToProject
<1>4. ns \subseteq ToProject /\ (Drained(Cardinality(ns)) => ns = ToProject)
  BY <1>2, <1>3, DrainedBatch
<1>5. migration' = IF Drained(Cardinality(ns)) THEN "finalize" ELSE "project"
  BY <1>1, <1>2 DEF Phase
<1>6. \A k \in Keys : /\ entity[k] = "final" <=> entity'[k] = "final"
                      /\ entity[k] # "absent" => entity'[k] # "absent"
                      /\ (\E n \in ns : KeyOf[n] = k) => entity'[k] # "absent"
  BY <1>1 DEF GraphInv, GraphTypes
<1>7. GraphTypes'
  BY <1>1, <1>2, <1>3, <1>4, <1>5 DEF GraphInv, GraphTypes
<1>8. AwardsWait'
  BY <1>1, <1>2, <1>6, KeyIsAKey DEF GraphInv, AwardsWait, HasAward, Settled
<1>9. FinalHas'
  BY <1>1, <1>2, <1>6 DEF GraphInv, FinalHas
<1>10. LinksHold'
  BY <1>1, <1>2, <1>4, <1>6, KeyIsAKey DEF GraphInv, GraphTypes, LinksHold, ToProject
<1>11. PhasesDone'
  BY <1>1, <1>2, <1>4, <1>5 DEF PhasesDone, ToProject
<1>. QED  BY <1>7, <1>8, <1>9, <1>10, <1>11 DEF GraphInv

\* A contract takes the award of its canonical notice, which still has it.
LEMMA FinalizeInv ==
  ASSUME GraphInv, Finalize
  PROVE  GraphInv'
<1>1. PICK ks \in Batches :
        /\ entity' = [k \in Keys |-> IF k \in ks THEN "final" ELSE entity[k]]
        /\ taken' = [k \in Keys |-> IF k \in ks THEN Canonical(k) ELSE taken[k]]
        /\ entityEdges' = entityEdges \union
             UNION {{<<k, e[2]>> : e \in {x \in noticeEdges : x[1] = Canonical(k)}} : k \in ks}
        /\ migration' = Phase(Cardinality(ks))
  BY DEF Finalize
<1>2. /\ migration = "finalize" /\ RowsFound = ToFinalize
      /\ UNCHANGED <<label, linked, noticeEdges, wonBy>>
  BY DEF Finalize, RowsFound, companyVars
<1>3. IsFiniteSet(ToFinalize)
  BY KeysAreFinite, FS_Subset DEF ToFinalize
<1>4. ks \subseteq ToFinalize /\ (Drained(Cardinality(ks)) => ks = ToFinalize)
  BY <1>2, <1>3, DrainedBatch
<1>5. migration' = IF Drained(Cardinality(ks)) THEN "strip" ELSE "finalize"
  BY <1>1, <1>2 DEF Phase
<1>6. GraphTypes'
  BY <1>1, <1>2, <1>5 DEF GraphInv, GraphTypes
<1>7. AwardsWait'
  BY <1>1, <1>2, KeyIsAKey DEF GraphInv, AwardsWait, HasAward, Settled
<1>8. FinalHas'
  <2>. SUFFICES ASSUME NEW k \in Keys, entity'[k] = "final"
                PROVE  /\ taken'[k] \in linked' /\ KeyOf[taken'[k]] = k
                       /\ <<k, wonBy'[taken'[k]]>> \in entityEdges'
    BY DEF FinalHas
  <2>1. CASE k \in ks
    <3>1. entity[k] = "bare" /\ \E n \in linked : KeyOf[n] = k
      BY <1>4, <2>1 DEF ToFinalize
    <3>2. Canonical(k) \in linked /\ KeyOf[Canonical(k)] = k
      BY <3>1, CanonicalIsLinked DEF GraphInv
    <3>. DEFINE n == Canonical(k)
    <3>3. taken'[k] = n
      BY <1>1, <2>1
    <3>4. <<n, wonBy[n]>> \in noticeEdges
      BY <3>1, <3>2 DEF GraphInv, GraphTypes, AwardsWait, LinksHold, HasAward, Settled
    <3>5. <<k, wonBy[n]>> \in
            {<<k, e[2]>> : e \in {x \in noticeEdges : x[1] = Canonical(k)}}
      <4>1. <<n, wonBy[n]>>[1] = n /\ <<n, wonBy[n]>>[2] = wonBy[n]
        OBVIOUS
      <4>. QED  BY <3>4, <4>1
    <3>6. <<k, wonBy[n]>> \in entityEdges'
      BY <1>1, <2>1, <3>5
    <3>. QED  BY <1>2, <3>2, <3>3, <3>6
  <2>2. CASE k \notin ks
    BY <1>1, <1>2, <2>2 DEF GraphInv, FinalHas
  <2>. QED  BY <2>1, <2>2
<1>9. LinksHold'
  BY <1>1, <1>2, KeyIsAKey DEF GraphInv, GraphTypes, LinksHold
<1>10. PhasesDone'
  <2>1. ASSUME Drained(Cardinality(ks)), NEW n \in linked PROVE entity'[KeyOf[n]] = "final"
    <3>1. entity[KeyOf[n]] \in {"bare", "final"} /\ KeyOf[n] \in Keys
      BY KeyIsAKey DEF GraphInv, GraphTypes, LinksHold
    <3>. QED  BY <1>1, <1>4, <2>1, <3>1 DEF ToFinalize
  <2>. QED  BY <1>2, <1>5, <2>1 DEF GraphInv, PhasesDone
<1>. QED  BY <1>6, <1>7, <1>8, <1>9, <1>10 DEF GraphInv

\* An edge is stripped from a notice whose contract is final.
LEMMA StripInv ==
  ASSUME GraphInv, Strip
  PROVE  GraphInv'
<1>1. PICK es \in Batches : noticeEdges' = noticeEdges \ es /\ migration' = Phase(Cardinality(es))
  BY DEF Strip
<1>2. /\ migration = "strip"
      /\ UNCHANGED <<label, linked, entity, taken, entityEdges, wonBy>>
  BY DEF Strip, companyVars
<1>3. es \subseteq {e \in noticeEdges : label[e[1]] = "Notice"}
  BY <1>2 DEF Batches, kSubset, RowsFound, ToStrip
<1>4. migration' \in {"strip", "idle"}
  BY <1>1, <1>2 DEF Phase
<1>5. AwardsWait'
  <2>. SUFFICES ASSUME NEW n \in Notice, label[n] # "absent" PROVE HasAward(n)' \/ Settled(n)'
    BY <1>2 DEF AwardsWait
  <2>1. CASE <<n, wonBy[n]>> \in es
    <3>1. label[n] = "Notice"
      BY <1>3, <2>1
    <3>. QED  BY <1>2, <3>1 DEF GraphInv, PhasesDone, Settled
  <2>2. CASE <<n, wonBy[n]>> \notin es
    BY <1>1, <1>2, <2>2 DEF GraphInv, AwardsWait, HasAward, Settled
  <2>. QED  BY <2>1, <2>2
<1>. QED
  BY <1>2, <1>4, <1>5 DEF GraphInv, GraphTypes, FinalHas, LinksHold, PhasesDone

\* An edge follows its company into the one that it becomes.
LEMMA ReroutedHas ==
  ASSUME NEW edges, NEW x, NEW c, <<x, c>> \in edges, NEW from, NEW to
  PROVE  <<x, IF c = from THEN to ELSE c>> \in Rerouted(edges, from, to)
<1>1. <<x, c>>[1] = x /\ <<x, c>>[2] = c
  OBVIOUS
<1>. QED  BY <1>1 DEF Rerouted

LEMMA MergeInv ==
  ASSUME GraphInv, MergePair
  PROVE  GraphInv'
<1>1. UNCHANGED <<label, linked, entity, taken, migration>>
  BY DEF MergePair, contractVars
<1>2. PICK p \in dedup :
        IF {p.can, p.dup} \subseteq firms
          THEN /\ wonBy' = [n \in Notice |-> IF wonBy[n] = p.dup THEN p.can ELSE wonBy[n]]
               /\ noticeEdges' = Rerouted(noticeEdges, p.dup, p.can)
               /\ entityEdges' = Rerouted(entityEdges, p.dup, p.can)
          ELSE UNCHANGED <<wonBy, noticeEdges, entityEdges>>
  BY DEF MergePair
<1>3. CASE UNCHANGED <<wonBy, noticeEdges, entityEdges>>
  BY <1>1, <1>3, PhaseInv
<1>4. CASE /\ wonBy' = [n \in Notice |-> IF wonBy[n] = p.dup THEN p.can ELSE wonBy[n]]
           /\ noticeEdges' = Rerouted(noticeEdges, p.dup, p.can)
           /\ entityEdges' = Rerouted(entityEdges, p.dup, p.can)
  <2>1. GraphTypes'
    BY <1>1, <1>4 DEF GraphInv, GraphTypes
  <2>2. AwardsWait'
    BY <1>1, <1>4, ReroutedHas DEF GraphInv, AwardsWait, HasAward, Settled
  <2>3. FinalHas'
    <3>. SUFFICES ASSUME NEW k \in Keys, entity[k] = "final"
                  PROVE  /\ taken[k] \in linked /\ KeyOf[taken[k]] = k
                         /\ <<k, wonBy'[taken[k]]>> \in entityEdges'
      BY <1>1 DEF FinalHas
    <3>1. /\ taken[k] \in linked /\ KeyOf[taken[k]] = k /\ taken[k] \in Notice
          /\ <<k, wonBy[taken[k]]>> \in entityEdges
      BY DEF GraphInv, FinalHas, GraphTypes
    <3>2. wonBy'[taken[k]] = IF wonBy[taken[k]] = p.dup THEN p.can ELSE wonBy[taken[k]]
      BY <1>4, <3>1
    <3>. QED  BY <1>4, <3>1, <3>2, ReroutedHas
  <2>4. LinksHold' /\ PhasesDone'
    BY <1>1 DEF GraphInv, LinksHold, PhasesDone
  <2>. QED  BY <2>1, <2>2, <2>3, <2>4 DEF GraphInv
<1>. QED  BY <1>2, <1>3, <1>4

LEMMA GraphNextInv == GraphInv /\ [GraphRepairsNext]_graphRepairVars => GraphInv'
<1>. SUFFICES ASSUME GraphInv, [GraphRepairsNext]_graphRepairVars PROVE GraphInv'
  OBVIOUS
<1>1. CASE StartProjection \/ FindDuplicates \/ DeferPair \/ ScriptDies
           \/ UNCHANGED graphRepairVars
  <2>1. UNCHANGED <<label, linked, entity, taken, noticeEdges, entityEdges, wonBy>>
    BY <1>1 DEF StartProjection, FindDuplicates, DeferPair, ScriptDies, graphRepairVars,
                contractVars, companyVars
  <2>2. migration' \in {"idle", "relabel", migration}
    BY <1>1 DEF StartProjection, FindDuplicates, DeferPair, ScriptDies, graphRepairVars,
                contractVars
  <2>. QED  BY <2>1, <2>2, PhaseInv
<1>. QED
  BY <1>1, SinkNoticeInv, RelabelInv, ProjectInv, FinalizeInv, StripInv, MergeInv
     DEF GraphRepairsNext

\* project_contracts.py and dedup_companies.py: no award is lost on the way from
\* a notice to its contract.  A notice has its award until its contract is final,
\* and the canonical one leaves it to the contract, for any notices, ranks and
\* batch size, scripts that die, late notices and merged companies.
THEOREM AwardsAreKept == GraphRepairsSpec => []AwardsSurvive
<1>1. GraphInv => AwardsSurvive
  <2>. SUFFICES ASSUME GraphInv, NEW n \in Notice, label[n] # "absent",
                       <<n, wonBy[n]>> \notin noticeEdges
                PROVE  /\ entity[KeyOf[n]] = "final"
                       /\ taken[KeyOf[n]] = n => <<KeyOf[n], wonBy[n]>> \in entityEdges
    BY DEF AwardsSurvive
  <2>1. entity[KeyOf[n]] = "final"
    BY DEF GraphInv, AwardsWait, HasAward, Settled
  <2>. QED  BY <2>1, KeyIsAKey DEF GraphInv, FinalHas
<1>. QED  BY <1>1, GraphInitInv, GraphNextInv, PTL DEF GraphRepairsSpec

----------------------------------------------------------------------------
(* TitleLang: what sink and graph stage have both passed is shown, and where the *)
(* stage has begun with a domain its guesses are gone.                     *)

\* How far the graph stage has written the events of a domain: to its cursor, or to
\* the end of the window that it has written and not yet noted.
GraphMark(d) == titleMark[<<"graph", d>>]
WrittenTo(d) ==
  IF titleRun.pc = "graph" /\ titleRun.written /\ PassInHand = d THEN WindowEnd ELSE GraphMark(d)

\* Event n states a language for i, and no later one does.
StatesLast(i, n) ==
  /\ titleLog[n].id = i /\ titleLog[n].lang # NoTongue
  /\ \A o \in DOMAIN titleLog : o > n /\ titleLog[o].id = i => titleLog[o].lang = NoTongue

NoneStates(i) == \A n \in DOMAIN titleLog : titleLog[n].id = i => titleLog[n].lang = NoTongue

TitleTypes ==
  /\ \E S : titleLog \in Seq(S)
  /\ \A n \in DOMAIN titleLog : DOMAIN titleLog[n] = {"id", "lang", "old"}
  /\ Len(titleLog) > 0 /\ sinkAt \in 0..Len(titleLog)
  /\ titleMark \in [{"events", "graph"} \X {"contract", "contract_ojs", "eu_cohesion"} -> Nat]
  /\ DOMAIN shown = TitleId /\ shown = [i \in TitleId |-> shown[i]]
  /\ DOMAIN titleRun = {"pc", "stage", "end", "ends", "written"}
  /\ titleRun.ends \in Seq(Nat)

\* Where a run is.
RunShape ==
  /\ titleRun.pc \in {"idle", "next", "events", "graph", "over"}
  /\ titleRun.pc # "idle" => titleRun.stage \in {"events", "graph"}
  /\ titleRun.pc \in {"events", "graph"} =>
       /\ titleRun.stage = titleRun.pc
       /\ titleRun.end \in 1..Len(titleLog) /\ Len(titleRun.ends) < Len(Passes)
  /\ titleRun.pc = "over" => titleRun.stage = "graph" /\ Len(titleRun.ends) = 2
  /\ titleRun.written => titleRun.pc = "graph" /\ titleMark[Stage] < titleRun.end
  /\ titleRun.pc \in {"next", "graph", "over"} /\ titleRun.stage = "graph" =>
       /\ Len(titleRun.ends) <= 2
       /\ \A k \in 1..Len(titleRun.ends) : titleRun.ends[k] \in 1..GraphMark(GraphDomain[k])

\* The events are given languages only before the graph stage has written anything.
EventsFirst ==
  titleRun.pc \in {"next", "events"} /\ titleRun.stage = "events" =>
    \A d \in {"contract", "eu_cohesion"} : GraphMark(d) = 0

MarksInLog == \A d \in {"contract", "eu_cohesion"} : GraphMark(d) <= Len(titleLog)

\* What sink and migration have both passed is shown.
StatedIsShown ==
  \A i \in TitleId, n \in DOMAIN titleLog :
    StatesLast(i, n) /\ n <= sinkAt /\ n <= WrittenTo(DomainOf(i)) =>
      \/ shown[i] = titleLog[n].lang
      \/ i \in PubId /\ titleMap[i] = NoTongue

\* Where the graph stage has begun with a domain its guesses are gone.
HasBegun(d) == GraphMark(d) > 0 \/ (titleRun.pc = "graph" /\ PassInHand = d)
GuessesAreGone ==
  \A i \in TitleId \ PubId :
    NoneStates(i) /\ HasBegun(DomainOf(i)) => shown[i] = NoTongue

TitleInv ==
  TitleTypes /\ RunShape /\ EventsFirst /\ MarksInLog /\ StatedIsShown /\ GuessesAreGone

LEMMA PassNames ==
  /\ Len(GraphDomain) = 2 /\ Len(Pass) = 3
  /\ GraphDomain[1] = "contract" /\ GraphDomain[2] = "eu_cohesion"
  /\ Pass[1] = "contract" /\ Pass[2] = "contract_ojs" /\ Pass[3] = "eu_cohesion"
  /\ \A i : DomainOf(i) \in {"contract", "eu_cohesion"}
BY DEF GraphDomain, Pass, DomainOf

LEMMA TitleLen ==
  ASSUME TitleTypes
  PROVE  DOMAIN titleLog = 1..Len(titleLog) /\ Len(titleLog) \in Nat
<1>1. PICK S : titleLog \in Seq(S)
  BY DEF TitleTypes
<1>. QED  BY <1>1, LenProperties

\* The pass of the graph stage that is in hand.
LEMMA GraphPass ==
  ASSUME TitleTypes, RunShape, titleRun.pc = "graph"
  PROVE  /\ PassInHand \in {"contract", "eu_cohesion"}
         /\ Stage = <<"graph", PassInHand>> /\ titleMark[Stage] = GraphMark(PassInHand)
         /\ Len(titleRun.ends) \in {0, 1} /\ PassInHand = GraphDomain[Len(titleRun.ends) + 1]
         /\ titleRun.stage = "graph" /\ Passes = GraphDomain
<1>1. titleRun.stage = "graph" /\ Len(titleRun.ends) < Len(Passes)
  BY DEF RunShape
<1>2. Passes = GraphDomain
  BY <1>1 DEF Passes
<1>3. Len(titleRun.ends) \in Nat
  BY LenProperties DEF TitleTypes
<1>4. Len(titleRun.ends) \in {0, 1}
  <2>1. Len(Passes) = 2
    BY <1>2, PassNames
  <2>2. \A m \in Nat : m < 2 => m \in {0, 1}
    OBVIOUS
  <2>3. Len(titleRun.ends) < 2
    BY <1>1, <2>1
  <2>. QED  BY <1>3, <2>2, <2>3
<1>. QED  BY <1>1, <1>2, <1>4, PassNames DEF PassInHand, Stage, GraphMark

\* A window ends in the log, and not before its cursor.
LEMMA WindowInLog ==
  ASSUME TitleTypes, RunShape, titleRun.pc = "graph", titleMark[Stage] < titleRun.end
  PROVE  /\ WindowEnd \in Nat /\ GraphMark(PassInHand) < WindowEnd
         /\ WindowEnd <= Len(titleLog)
<1>1. GraphMark(PassInHand) \in Nat /\ titleMark[Stage] = GraphMark(PassInHand)
  BY GraphPass DEF TitleTypes, GraphMark
<1>2. titleRun.end \in 1..Len(titleLog) /\ Len(titleLog) \in Nat
  BY TitleLen DEF RunShape
<1>. QED  BY <1>1, <1>2, TitleAssumption DEF WindowEnd

LEMMA MarksAreNumbers ==
  ASSUME TitleTypes, NEW d \in {"contract", "eu_cohesion"}
  PROVE  GraphMark(d) \in Nat
BY DEF TitleTypes, GraphMark

\* A run that is not in a graph pass has written what it has noted.
LEMMA NothingWritten ==
  ASSUME RunShape, ~titleRun.written, NEW d
  PROVE  WrittenTo(d) = GraphMark(d)
BY DEF WrittenTo

LEMMA TitleInitially == TitleInit => TitleInv
<1>. SUFFICES ASSUME TitleInit PROVE TitleInv
  OBVIOUS
<1>1. PICK old \in 1..MaxOldTitles :
        titleLog \in [1..old -> {[id |-> i, lang |-> NoTongue, old |-> TRUE] : i \in TitleId}]
  BY DEF TitleInit
<1>2. titleRun = TitleIdle /\ sinkAt = Len(titleLog) /\ shown = [i \in TitleId |-> Guess]
  BY DEF TitleInit
<1>3. titleMark = [s \in {"events", "graph"} \X {"contract", "contract_ojs", "eu_cohesion"} |-> 0]
  BY DEF TitleInit
<1>4. DOMAIN titleLog = 1..old /\ Len(titleLog) = old /\ \E S : titleLog \in Seq(S)
  <2>1. old \in Nat
    BY TitleAssumption
  <2>2. titleLog \in Seq({[id |-> i, lang |-> NoTongue, old |-> TRUE] : i \in TitleId})
    BY <1>1, <2>1
  <2>3. DOMAIN titleLog = 1..old
    BY <1>1
  <2>4. Len(titleLog) = old
    BY <2>1, <2>2, <2>3, LenProperties
  <2>. QED  BY <2>2, <2>3, <2>4
<1>5. \A n \in DOMAIN titleLog : DOMAIN titleLog[n] = {"id", "lang", "old"}
  BY <1>1
<1>6. /\ titleRun.pc = "idle" /\ ~titleRun.written /\ titleRun.ends = <<>>
      /\ DOMAIN titleRun = {"pc", "stage", "end", "ends", "written"}
  BY <1>2 DEF TitleIdle
<1>7. TitleTypes
  BY <1>2, <1>3, <1>4, <1>5, <1>6, EmptySeq DEF TitleTypes
<1>8. RunShape /\ EventsFirst
  BY <1>6 DEF RunShape, EventsFirst
<1>9. \A d \in {"contract", "eu_cohesion"} : GraphMark(d) = 0 /\ WrittenTo(d) = 0
  BY <1>3, <1>6 DEF GraphMark, WrittenTo
<1>10. MarksInLog
  BY <1>4, <1>9 DEF MarksInLog
<1>11. StatedIsShown
  BY <1>4, <1>9, PassNames DEF StatedIsShown
<1>12. GuessesAreGone
  BY <1>6, <1>9, PassNames DEF GuessesAreGone, HasBegun
<1>. QED  BY <1>7, <1>8, <1>10, <1>11, <1>12 DEF TitleInv

\* A loader's event is beyond both the sink and the migration.
LEMMA EmitTitleKeeps == ASSUME TitleInv, EmitTitle PROVE TitleInv'
<1>0. TitleTypes /\ RunShape /\ EventsFirst /\ MarksInLog /\ StatedIsShown /\ GuessesAreGone
  BY DEF TitleInv
<1>n. PICK n : n = Len(titleLog)
  OBVIOUS
<1>1. DOMAIN titleLog = 1..n /\ n \in Nat /\ n > 0 /\ sinkAt \in 0..n
  BY <1>0, <1>n, TitleLen DEF TitleTypes
<1>2. PICK i0, lang : titleLog' = Append(titleLog, [id |-> i0, lang |-> lang, old |-> FALSE])
  BY DEF EmitTitle
<1>3. UNCHANGED <<titleMap, titleMark, shown, sinkAt, titleRun>>
  BY DEF EmitTitle
<1>e. PICK e : e = [id |-> i0, lang |-> lang, old |-> FALSE]
  OBVIOUS
<1>4. /\ \E S : titleLog' \in Seq(S)
      /\ Len(titleLog') = n + 1 /\ titleLog'[n + 1] = e
      /\ \A k \in 1..n : titleLog'[k] = titleLog[k]
  <2>1. PICK S : titleLog \in Seq(S)
    BY <1>0 DEF TitleTypes
  <2>2. PICK T : T = S \union {e}
    OBVIOUS
  <2>3. \A k \in 1..n : titleLog[k] \in T
    BY <1>1, <2>1, <2>2
  <2>4. titleLog \in [1..n -> T]
    BY <1>1, <1>n, <2>1, <2>3
  <2>5. titleLog \in Seq(T) /\ e \in T
    BY <1>1, <2>2, <2>4
  <2>6. titleLog' = Append(titleLog, e)
    BY <1>2, <1>e
  <2>. QED  BY <1>n, <2>5, <2>6, AppendProperties
<1>5. DOMAIN titleLog' = 1..(n + 1)
  <2>1. PICK S : titleLog' \in Seq(S)
    BY <1>4
  <2>. QED  BY <1>4, <2>1, LenProperties
<1>6. TitleTypes'
  <2>1. DOMAIN e = {"id", "lang", "old"}
    BY <1>e
  <2>2. \A k \in DOMAIN titleLog' : DOMAIN titleLog'[k] = {"id", "lang", "old"}
    <3>. SUFFICES ASSUME NEW k \in 1..(n + 1) PROVE DOMAIN titleLog'[k] = {"id", "lang", "old"}
      BY <1>5
    <3>1. CASE k = n + 1
      BY <1>4, <2>1, <3>1
    <3>2. CASE k # n + 1
      <4>1. k \in 1..n
        BY <1>1, <3>2
      <4>. QED  BY <1>0, <1>1, <1>4, <4>1 DEF TitleTypes
    <3>. QED  BY <3>1, <3>2
  <2>3. Len(titleLog') > 0 /\ sinkAt' \in 0..Len(titleLog')
    BY <1>1, <1>3, <1>4
  <2>. QED  BY <1>0, <1>3, <1>4, <2>2, <2>3 DEF TitleTypes
<1>7. RunShape'
  <2>1. \A k \in 1..Len(titleLog) : k \in 1..Len(titleLog')
    BY <1>1, <1>n, <1>4
  <2>. QED  BY <1>0, <1>3, <2>1 DEF RunShape, GraphMark, Passes, Stage, PassInHand
<1>8. EventsFirst'
  BY <1>0, <1>3 DEF EventsFirst, GraphMark
<1>9. MarksInLog'
  <2>1. \A d \in {"contract", "eu_cohesion"} : GraphMark(d)' = GraphMark(d) /\ GraphMark(d) \in Nat
    BY <1>0, <1>3, MarksAreNumbers DEF GraphMark
  <2>. QED  BY <1>0, <1>1, <1>n, <1>4, <2>1 DEF MarksInLog
<1>10. \A d : WrittenTo(d)' = WrittenTo(d) /\ HasBegun(d)' = HasBegun(d)
  BY <1>3 DEF WrittenTo, HasBegun, GraphMark, WindowEnd, PassInHand, Passes, Stage
<1>11. StatedIsShown'
  <2>. SUFFICES ASSUME NEW i \in TitleId, NEW k \in DOMAIN titleLog',
                       StatesLast(i, k)', k <= sinkAt, k <= WrittenTo(DomainOf(i))
                PROVE  shown[i] = titleLog'[k].lang \/ (i \in PubId /\ titleMap[i] = NoTongue)
    BY <1>3, <1>10 DEF StatedIsShown
  <2>1. k \in 1..n /\ titleLog'[k] = titleLog[k]
    BY <1>1, <1>4, <1>5
  <2>2. StatesLast(i, k)
    BY <1>1, <1>4, <1>5, <2>1 DEF StatesLast
  <2>. QED  BY <1>0, <1>1, <2>1, <2>2 DEF StatedIsShown
<1>12. GuessesAreGone'
  <2>1. \A i : NoneStates(i)' => NoneStates(i)
    BY <1>1, <1>4, <1>5 DEF NoneStates
  <2>. QED  BY <1>0, <1>3, <1>10, <2>1 DEF GuessesAreGone
<1>. QED  BY <1>6, <1>7, <1>8, <1>9, <1>11, <1>12 DEF TitleInv

\* The sink shows the event that it applies, and goes no further back.
LEMMA SinkTitleKeeps == ASSUME TitleInv, SinkTitle PROVE TitleInv'
<1>0. TitleTypes /\ RunShape /\ EventsFirst /\ MarksInLog /\ StatedIsShown /\ GuessesAreGone
  BY DEF TitleInv
<1>k. PICK k : k = sinkAt + 1
  OBVIOUS
<1>e. PICK e : e = titleLog[k]
  OBVIOUS
<1>1. /\ sinkAt < Len(titleLog) /\ sinkAt' = k
      /\ shown' = IF e.lang = NoTongue THEN shown ELSE [shown EXCEPT ![e.id] = e.lang]
      /\ UNCHANGED <<titleLog, titleMap, titleMark, titleRun>>
  BY <1>k, <1>e DEF SinkTitle
<1>2. DOMAIN titleLog = 1..Len(titleLog) /\ Len(titleLog) \in Nat /\ sinkAt \in 0..Len(titleLog)
  BY <1>0, TitleLen DEF TitleTypes
<1>3. k \in 1..Len(titleLog)
  BY <1>1, <1>2, <1>k
<1>4. /\ DOMAIN shown' = TitleId /\ shown' = [i \in TitleId |-> shown'[i]]
      /\ \A i \in TitleId :
           shown'[i] = IF e.id = i /\ e.lang # NoTongue THEN e.lang ELSE shown[i]
  BY <1>0, <1>1 DEF TitleTypes
<1>5. TitleTypes'
  <2>1. sinkAt' \in 0..Len(titleLog)
    BY <1>1, <1>2, <1>3
  <2>. QED  BY <1>0, <1>1, <1>4, <2>1 DEF TitleTypes
<1>6. RunShape' /\ EventsFirst' /\ MarksInLog'
  BY <1>0, <1>1 DEF RunShape, EventsFirst, MarksInLog, GraphMark, Passes, Stage, PassInHand
<1>7. \A d : WrittenTo(d)' = WrittenTo(d) /\ HasBegun(d)' = HasBegun(d)
  BY <1>1 DEF WrittenTo, HasBegun, GraphMark, WindowEnd, PassInHand, Passes, Stage
<1>8. StatedIsShown'
  <2>. SUFFICES ASSUME NEW i \in TitleId, NEW n \in DOMAIN titleLog,
                       StatesLast(i, n), n <= k, n <= WrittenTo(DomainOf(i))
                PROVE  shown'[i] = titleLog[n].lang \/ (i \in PubId /\ titleMap[i] = NoTongue)
    BY <1>1, <1>7 DEF StatedIsShown, StatesLast
  <2>1. CASE n = k
    <3>1. e.id = i /\ e.lang # NoTongue
      BY <1>e, <2>1 DEF StatesLast
    <3>. QED  BY <1>4, <1>e, <2>1, <3>1
  <2>2. CASE n # k
    <3>1. n <= sinkAt /\ k > n
      BY <1>2, <1>3, <1>k, <2>2
    <3>2. ~(e.id = i /\ e.lang # NoTongue)
      BY <1>2, <1>3, <1>e, <3>1 DEF StatesLast
    <3>3. shown'[i] = shown[i]
      BY <1>4, <3>2
    <3>. QED  BY <1>0, <3>1, <3>3 DEF StatedIsShown
  <2>. QED  BY <2>1, <2>2
<1>9. GuessesAreGone'
  <2>. SUFFICES ASSUME NEW i \in TitleId \ PubId, NoneStates(i), HasBegun(DomainOf(i))
                PROVE  shown'[i] = NoTongue
    BY <1>1, <1>7 DEF GuessesAreGone, NoneStates
  <2>1. ~(e.id = i /\ e.lang # NoTongue)
    BY <1>2, <1>3, <1>e DEF NoneStates
  <2>. QED  BY <1>0, <1>4, <2>1 DEF GuessesAreGone
<1>. QED  BY <1>5, <1>6, <1>8, <1>9 DEF TitleInv

\* A source's word on a notice comes before the later stages.
LEMMA MapTitleKeeps == ASSUME TitleInv, MapTitle PROVE TitleInv'
<1>0. TitleTypes /\ RunShape /\ EventsFirst /\ MarksInLog
  BY DEF TitleInv
<1>1. /\ titleRun.pc = "idle" /\ \A s \in DOMAIN titleMark : titleMark[s] = 0
      /\ UNCHANGED <<titleLog, titleMark, shown, sinkAt, titleRun>>
  BY DEF MapTitle
<1>2. TitleTypes' /\ RunShape' /\ EventsFirst' /\ MarksInLog'
  BY <1>0, <1>1 DEF TitleTypes, RunShape, EventsFirst, MarksInLog, GraphMark, Passes, Stage,
                    PassInHand
<1>3. \A d \in {"contract", "eu_cohesion"} : GraphMark(d)' = 0
  BY <1>0, <1>1 DEF TitleTypes, GraphMark
<1>4. \A d \in {"contract", "eu_cohesion"} : WrittenTo(d)' = 0 /\ ~HasBegun(d)'
  BY <1>1, <1>3 DEF WrittenTo, HasBegun
<1>5. DOMAIN titleLog' = 1..Len(titleLog)
  BY <1>0, <1>1, TitleLen
<1>6. StatedIsShown'
  BY <1>4, <1>5, PassNames DEF StatedIsShown
<1>7. GuessesAreGone'
  BY <1>4, PassNames DEF GuessesAreGone
<1>. QED  BY <1>2, <1>6, <1>7 DEF TitleInv

LEMMA BeginStageKeeps == ASSUME TitleInv, BeginStage PROVE TitleInv'
<1>0. TitleTypes /\ RunShape /\ EventsFirst /\ MarksInLog /\ StatedIsShown /\ GuessesAreGone
  BY DEF TitleInv
<1>1. PICK stage \in {"events", "graph"} :
        /\ stage = "events" => \A s \in DOMAIN titleMark : s[1] = "graph" => titleMark[s] = 0
        /\ titleRun' = [TitleIdle EXCEPT !.pc = "next", !.stage = stage]
  BY DEF BeginStage
<1>2. /\ titleRun.pc \in {"idle", "over"}
      /\ UNCHANGED <<titleLog, titleMap, titleMark, shown, sinkAt>>
  BY DEF BeginStage
<1>3. /\ DOMAIN titleRun' = {"pc", "stage", "end", "ends", "written"}
      /\ titleRun'.pc = "next" /\ titleRun'.stage = stage /\ titleRun'.ends = <<>>
      /\ ~titleRun'.written
  BY <1>1 DEF TitleIdle
<1>4. TitleTypes'
  BY <1>0, <1>2, <1>3, EmptySeq DEF TitleTypes
<1>5. RunShape'
  BY <1>3 DEF RunShape
<1>6. EventsFirst'
  <2>. SUFFICES ASSUME stage = "events", NEW d \in {"contract", "eu_cohesion"}
                PROVE  GraphMark(d)' = 0
    BY <1>3 DEF EventsFirst
  <2>1. <<"graph", d>> \in DOMAIN titleMark
    BY <1>0 DEF TitleTypes
  <2>2. <<"graph", d>>[1] = "graph"
    OBVIOUS
  <2>. QED  BY <1>1, <1>2, <2>1, <2>2 DEF GraphMark
<1>7. \A d : GraphMark(d)' = GraphMark(d)
  BY <1>2 DEF GraphMark
<1>8. \A d : WrittenTo(d)' = WrittenTo(d) /\ (HasBegun(d)' => HasBegun(d))
  BY <1>2, <1>3, <1>7 DEF WrittenTo, HasBegun
<1>9. MarksInLog'
  BY <1>0, <1>2, <1>7 DEF MarksInLog
<1>10. StatedIsShown'
  BY <1>0, <1>2, <1>8 DEF StatedIsShown, StatesLast
<1>11. GuessesAreGone'
  BY <1>0, <1>2, <1>8 DEF GuessesAreGone, NoneStates
<1>. QED  BY <1>4, <1>5, <1>6, <1>9, <1>10, <1>11 DEF TitleInv

\* The guesses of a domain go before anything of it is written.
LEMMA BeginPassKeeps == ASSUME TitleInv, BeginPass PROVE TitleInv'
<1>0. TitleTypes /\ RunShape /\ EventsFirst /\ MarksInLog /\ StatedIsShown /\ GuessesAreGone
  BY DEF TitleInv
<1>1. /\ titleRun.pc = "next" /\ Len(titleRun.ends) < Len(Passes)
      /\ titleRun' = [titleRun EXCEPT !.pc = titleRun.stage, !.end = Len(titleLog)]
      /\ UNCHANGED <<titleLog, titleMap, titleMark, sinkAt>>
  BY DEF BeginPass
<1>2. /\ DOMAIN titleRun' = {"pc", "stage", "end", "ends", "written"}
      /\ titleRun'.pc = titleRun.stage /\ titleRun'.stage = titleRun.stage
      /\ titleRun'.ends = titleRun.ends /\ titleRun'.end = Len(titleLog)
      /\ ~titleRun'.written /\ ~titleRun.written
  BY <1>0, <1>1 DEF TitleTypes, RunShape
<1>3. Passes' = Passes /\ PassInHand' = PassInHand /\ \A d : GraphMark(d)' = GraphMark(d)
  BY <1>1, <1>2 DEF Passes, PassInHand, GraphMark
<1>c. PICK cleared : cleared = {i \in TitleId \ PubId :
        titleRun.stage = "graph" /\ DomainOf(i) = PassInHand /\ titleMark[Stage] = 0}
  OBVIOUS
<1>4. shown' = [i \in TitleId |-> IF i \in cleared THEN NoTongue ELSE shown[i]]
  BY <1>c DEF BeginPass
<1>5. /\ DOMAIN shown' = TitleId /\ shown' = [i \in TitleId |-> shown'[i]]
      /\ \A i \in TitleId : shown'[i] = IF i \in cleared THEN NoTongue ELSE shown[i]
  BY <1>4
<1>6. TitleTypes'
  BY <1>0, <1>1, <1>2, <1>5 DEF TitleTypes
<1>7. RunShape'
  <2>1. titleRun.stage \in {"events", "graph"}
    BY <1>0, <1>1 DEF RunShape
  <2>2. Len(titleLog) \in 1..Len(titleLog)
    BY <1>0, TitleLen DEF TitleTypes
  <2>. QED  BY <1>0, <1>1, <1>2, <1>3, <2>1, <2>2 DEF RunShape
<1>8. EventsFirst'
  BY <1>0, <1>1, <1>2, <1>3 DEF EventsFirst
<1>9. MarksInLog'
  BY <1>0, <1>1, <1>3 DEF MarksInLog
<1>10. \A d : WrittenTo(d)' = GraphMark(d) /\ WrittenTo(d) = GraphMark(d)
  BY <1>2, <1>3 DEF WrittenTo
<1>11. \A i \in cleared : GraphMark(DomainOf(i)) = 0
  BY <1>c DEF Stage, GraphMark
<1>12. StatedIsShown'
  <2>. SUFFICES ASSUME NEW i \in TitleId, NEW n \in DOMAIN titleLog,
                       StatesLast(i, n), n <= sinkAt, n <= GraphMark(DomainOf(i))
                PROVE  shown'[i] = titleLog[n].lang \/ (i \in PubId /\ titleMap[i] = NoTongue)
    BY <1>1, <1>10 DEF StatedIsShown, StatesLast
  <2>1. n \in 1..Len(titleLog)
    BY <1>0, TitleLen
  <2>2. i \notin cleared
    BY <1>11, <2>1
  <2>. QED  BY <1>0, <1>5, <1>10, <2>2 DEF StatedIsShown
<1>13. GuessesAreGone'
  <2>. SUFFICES ASSUME NEW i \in TitleId \ PubId, NoneStates(i), HasBegun(DomainOf(i))',
                       i \notin cleared
                PROVE  shown'[i] = NoTongue
    BY <1>1, <1>5 DEF GuessesAreGone, NoneStates
  <2>1. GraphMark(DomainOf(i)) > 0
    <3>1. CASE titleRun.stage = "graph" /\ PassInHand = DomainOf(i)
      <4>1. GraphMark(DomainOf(i)) # 0
        BY <1>c, <3>1 DEF Stage, GraphMark
      <4>2. GraphMark(DomainOf(i)) \in Nat
        BY <1>0, MarksAreNumbers, PassNames
      <4>. QED  BY <4>1, <4>2
    <3>. QED  BY <1>2, <1>3, <3>1 DEF HasBegun
  <2>2. HasBegun(DomainOf(i))
    BY <2>1 DEF HasBegun
  <2>. QED  BY <1>0, <1>5, <2>2 DEF GuessesAreGone
<1>. QED  BY <1>6, <1>7, <1>8, <1>9, <1>12, <1>13 DEF TitleInv

\* While events are given languages, nothing of them has been written.
LEMMA EventsWindowKeeps == ASSUME TitleInv, EventsWindow PROVE TitleInv'
<1>0. TitleTypes /\ RunShape /\ EventsFirst /\ MarksInLog
  BY DEF TitleInv
<1>1. /\ titleRun.pc = "events" /\ titleMark[Stage] < titleRun.end
      /\ titleMark' = [titleMark EXCEPT ![Stage] = WindowEnd]
      /\ UNCHANGED <<titleMap, shown, sinkAt, titleRun>>
  BY DEF EventsWindow
<1>n. PICK n : n = Len(titleLog)
  OBVIOUS
<1>2. DOMAIN titleLog = 1..n /\ n \in Nat
  BY <1>0, <1>n, TitleLen
<1>3. titleLog' = [k \in 1..n |-> titleLog'[k]]
      /\ \A k \in 1..n : DOMAIN titleLog'[k] = DOMAIN titleLog[k]
  BY <1>2 DEF EventsWindow
<1>4. (\E S : titleLog' \in Seq(S)) /\ Len(titleLog') = n /\ DOMAIN titleLog' = 1..n
  <2>1. titleLog' \in [1..n -> {titleLog'[k] : k \in 1..n}]
    BY <1>3
  <2>2. titleLog' \in Seq({titleLog'[k] : k \in 1..n})
    BY <1>2, <2>1
  <2>3. DOMAIN titleLog' = 1..n
    BY <1>3
  <2>4. Len(titleLog') = n
    BY <1>2, <2>2, <2>3, LenProperties
  <2>. QED  BY <2>2, <2>3, <2>4
<1>5. titleRun.stage = "events"
  BY <1>0, <1>1 DEF RunShape
<1>6. PassInHand \in {"contract", "contract_ojs", "eu_cohesion"} /\ Stage[1] = "events"
      /\ Stage = <<"events", PassInHand>>
  <2>1. Passes = Pass /\ Len(titleRun.ends) < 3
    BY <1>0, <1>1, <1>5, PassNames DEF RunShape, Passes
  <2>2. Len(titleRun.ends) \in Nat
    BY <1>0, LenProperties DEF TitleTypes
  <2>3. \A m \in Nat : m < 3 => m + 1 \in {1, 2, 3}
    OBVIOUS
  <2>4. Len(titleRun.ends) + 1 \in {1, 2, 3}
    BY <2>1, <2>2, <2>3
  <2>. QED  BY <1>5, <2>1, <2>4, PassNames DEF PassInHand, Stage
<1>7. WindowEnd \in Nat
  <2>1. titleMark[Stage] \in Nat
    BY <1>0, <1>6 DEF TitleTypes
  <2>2. titleRun.end \in Nat
    BY <1>0, <1>1, <1>2, <1>n DEF RunShape
  <2>. QED  BY <2>1, <2>2, TitleAssumption DEF WindowEnd
<1>8. \A d \in {"contract", "eu_cohesion"} : GraphMark(d)' = 0
  <2>. SUFFICES ASSUME NEW d \in {"contract", "eu_cohesion"} PROVE GraphMark(d)' = 0
    OBVIOUS
  <2>1. GraphMark(d) = 0
    BY <1>0, <1>1, <1>5 DEF EventsFirst
  <2>2. <<"graph", d>> # Stage /\ <<"graph", d>> \in DOMAIN titleMark
    BY <1>0, <1>6 DEF TitleTypes
  <2>. QED  BY <1>1, <2>1, <2>2 DEF GraphMark
<1>9. TitleTypes'
  <2>1. titleMark' \in [{"events", "graph"} \X {"contract", "contract_ojs", "eu_cohesion"} -> Nat]
    BY <1>0, <1>1, <1>7 DEF TitleTypes
  <2>2. \A k \in DOMAIN titleLog' : DOMAIN titleLog'[k] = {"id", "lang", "old"}
    BY <1>0, <1>2, <1>3, <1>4 DEF TitleTypes
  <2>. QED  BY <1>0, <1>1, <1>n, <1>4, <2>1, <2>2 DEF TitleTypes
<1>10. RunShape'
  <2>1. ~titleRun.written
    BY <1>0, <1>1 DEF RunShape
  <2>2. Passes' = Passes
    BY <1>1 DEF Passes
  <2>. QED  BY <1>0, <1>1, <1>n, <1>4, <1>5, <2>1, <2>2 DEF RunShape
<1>11. EventsFirst'
  BY <1>8 DEF EventsFirst
<1>12. MarksInLog'
  BY <1>2, <1>4, <1>8 DEF MarksInLog
<1>13. \A d \in {"contract", "eu_cohesion"} : WrittenTo(d)' = 0 /\ ~HasBegun(d)'
  BY <1>1, <1>8 DEF WrittenTo, HasBegun
<1>14. StatedIsShown'
  BY <1>4, <1>13, PassNames DEF StatedIsShown
<1>15. GuessesAreGone'
  BY <1>13, PassNames DEF GuessesAreGone
<1>. QED  BY <1>9, <1>10, <1>11, <1>12, <1>14, <1>15 DEF TitleInv

\* A window shows the last language that it states, which is the last of the log
\* if no later event states one.
LEMMA GraphWindowKeeps == ASSUME TitleInv, GraphWindow PROVE TitleInv'
<1>0. TitleTypes /\ RunShape /\ EventsFirst /\ MarksInLog /\ StatedIsShown /\ GuessesAreGone
  BY DEF TitleInv
<1>1. /\ titleRun.pc = "graph" /\ titleMark[Stage] < titleRun.end /\ ~titleRun.written
      /\ titleRun' = [titleRun EXCEPT !.written = TRUE]
      /\ shown' = [i \in TitleId |->
           IF DomainOf(i) = PassInHand /\ Stating(i) # {} THEN LatestTongue(i) ELSE shown[i]]
      /\ UNCHANGED <<titleLog, titleMap, titleMark, sinkAt>>
  BY DEF GraphWindow
<1>p. PICK pass : pass = PassInHand
  OBVIOUS
<1>w. PICK w : w = WindowEnd
  OBVIOUS
<1>2. /\ pass \in {"contract", "eu_cohesion"} /\ titleMark[Stage] = GraphMark(pass)
      /\ w \in Nat /\ GraphMark(pass) < w /\ w <= Len(titleLog) /\ GraphMark(pass) \in Nat
  BY <1>0, <1>1, <1>p, <1>w, GraphPass, WindowInLog, MarksAreNumbers
<1>3. DOMAIN titleLog = 1..Len(titleLog) /\ Len(titleLog) \in Nat
  BY <1>0, TitleLen
<1>4. /\ DOMAIN titleRun' = {"pc", "stage", "end", "ends", "written"}
      /\ titleRun'.pc = "graph" /\ titleRun'.stage = titleRun.stage /\ titleRun'.written
      /\ titleRun'.end = titleRun.end /\ titleRun'.ends = titleRun.ends
  BY <1>0, <1>1 DEF TitleTypes
<1>5. /\ Passes' = Passes /\ PassInHand' = pass /\ Stage' = Stage /\ WindowEnd' = w
      /\ \A d : GraphMark(d)' = GraphMark(d)
  BY <1>1, <1>4, <1>p, <1>w DEF Passes, PassInHand, Stage, WindowEnd, GraphMark
<1>6. /\ DOMAIN shown' = TitleId /\ shown' = [i \in TitleId |-> shown'[i]]
      /\ \A i \in TitleId : shown'[i] =
           IF DomainOf(i) = pass /\ Stating(i) # {} THEN LatestTongue(i) ELSE shown[i]
  BY <1>1, <1>p
<1>7. TitleTypes'
  BY <1>0, <1>1, <1>4, <1>6 DEF TitleTypes
<1>8. RunShape'
  BY <1>0, <1>1, <1>4, <1>5 DEF RunShape
<1>9. EventsFirst'
  BY <1>0, <1>1, <1>4 DEF EventsFirst, RunShape
<1>10. MarksInLog'
  BY <1>0, <1>1, <1>5 DEF MarksInLog
<1>11. TitleWindowOf = GraphMark(pass) + 1..w
  BY <1>2, <1>w DEF TitleWindowOf
<1>12. \A d : /\ WrittenTo(d)' = IF d = pass THEN w ELSE GraphMark(d)
              /\ WrittenTo(d) = GraphMark(d)
              /\ HasBegun(d)' <=> HasBegun(d)
  BY <1>1, <1>4, <1>5, <1>p DEF WrittenTo, HasBegun
<1>13. StatedIsShown'
  <2>. SUFFICES ASSUME NEW i \in TitleId, NEW n \in DOMAIN titleLog,
                       StatesLast(i, n), n <= sinkAt, n <= WrittenTo(DomainOf(i))'
                PROVE  shown'[i] = titleLog[n].lang \/ (i \in PubId /\ titleMap[i] = NoTongue)
    BY <1>1 DEF StatedIsShown, StatesLast
  <2>0. n \in 1..Len(titleLog)
    BY <1>3
  <2>1. CASE DomainOf(i) # pass
    <3>1. shown'[i] = shown[i] /\ n <= WrittenTo(DomainOf(i))
      BY <1>6, <1>12, <2>1
    <3>. QED  BY <1>0, <3>1 DEF StatedIsShown
  <2>2. CASE DomainOf(i) = pass /\ n <= GraphMark(pass)
    <3>1. \A o \in TitleWindowOf : o \in DOMAIN titleLog /\ o > n
      BY <1>2, <1>3, <1>11, <2>0, <2>2
    <3>2. Stating(i) = {}
      BY <3>1 DEF Stating, StatesLast
    <3>3. shown'[i] = shown[i]
      BY <1>6, <3>2
    <3>. QED  BY <1>0, <1>12, <2>2, <3>3 DEF StatedIsShown
  <2>3. CASE DomainOf(i) = pass /\ ~(n <= GraphMark(pass))
    <3>1. n \in TitleWindowOf
      BY <1>2, <1>11, <1>12, <2>0, <2>3
    <3>2. n \in Stating(i)
      BY <3>1 DEF Stating, StatesLast
    <3>3. \A o \in Stating(i) : o \in DOMAIN titleLog /\ o \in Nat
      BY <1>2, <1>3, <1>11 DEF Stating
    <3>4. \A o \in Stating(i) : o <= n
      BY <2>0, <3>3 DEF Stating, StatesLast
    <3>5. PICK last : last = CHOOSE m \in Stating(i) : \A o \in Stating(i) : o <= m
      OBVIOUS
    <3>6. last \in Stating(i) /\ \A o \in Stating(i) : o <= last
      BY <3>2, <3>4, <3>5
    <3>7. last = n
      BY <2>0, <3>2, <3>3, <3>4, <3>6
    <3>8. LatestTongue(i) = titleLog[n].lang
      BY <3>5, <3>7 DEF LatestTongue
    <3>. QED  BY <1>6, <2>3, <3>2, <3>8
  <2>. QED  BY <2>1, <2>2, <2>3
<1>14. GuessesAreGone'
  <2>. SUFFICES ASSUME NEW i \in TitleId \ PubId, NoneStates(i), HasBegun(DomainOf(i))
                PROVE  shown'[i] = NoTongue
    BY <1>1, <1>12 DEF GuessesAreGone, NoneStates
  <2>1. \A o \in TitleWindowOf : o \in DOMAIN titleLog
    BY <1>2, <1>3, <1>11
  <2>2. Stating(i) = {}
    BY <2>1 DEF Stating, NoneStates
  <2>. QED  BY <1>0, <1>6, <2>2 DEF GuessesAreGone
<1>. QED  BY <1>7, <1>8, <1>9, <1>10, <1>13, <1>14 DEF TitleInv

LEMMA GraphCursorKeeps == ASSUME TitleInv, GraphCursor PROVE TitleInv'
<1>0. TitleTypes /\ RunShape /\ EventsFirst /\ MarksInLog /\ StatedIsShown /\ GuessesAreGone
  BY DEF TitleInv
<1>1. /\ titleRun.pc = "graph" /\ titleRun.written
      /\ titleMark' = [titleMark EXCEPT ![Stage] = WindowEnd]
      /\ titleRun' = [titleRun EXCEPT !.written = FALSE]
      /\ UNCHANGED <<titleLog, titleMap, shown, sinkAt>>
  BY DEF GraphCursor
<1>p. PICK pass : pass = PassInHand
  OBVIOUS
<1>w. PICK w : w = WindowEnd
  OBVIOUS
<1>2. /\ pass \in {"contract", "eu_cohesion"} /\ Stage = <<"graph", pass>>
      /\ w \in Nat /\ GraphMark(pass) < w /\ w <= Len(titleLog) /\ GraphMark(pass) \in Nat
      /\ titleRun.stage = "graph"
  <2>1. titleMark[Stage] < titleRun.end
    BY <1>0, <1>1 DEF RunShape
  <2>. QED  BY <1>0, <1>1, <1>p, <1>w, <2>1, GraphPass, WindowInLog, MarksAreNumbers
<1>3. /\ DOMAIN titleRun' = {"pc", "stage", "end", "ends", "written"}
      /\ titleRun'.pc = "graph" /\ titleRun'.stage = "graph" /\ ~titleRun'.written
      /\ titleRun'.end = titleRun.end /\ titleRun'.ends = titleRun.ends
  BY <1>0, <1>1, <1>2 DEF TitleTypes
<1>4. Passes' = Passes /\ PassInHand' = pass
  BY <1>3, <1>2, <1>p DEF Passes, PassInHand
<1>5. \A d \in {"contract", "eu_cohesion"} :
        GraphMark(d)' = IF d = pass THEN w ELSE GraphMark(d)
  <2>1. \A d \in {"contract", "eu_cohesion"} : <<"graph", d>> \in DOMAIN titleMark
    BY <1>0 DEF TitleTypes
  <2>2. titleMark' = [titleMark EXCEPT ![<<"graph", pass>>] = w]
    BY <1>1, <1>2, <1>w
  <2>. QED  BY <2>1, <2>2 DEF GraphMark
<1>6. TitleTypes'
  <2>1. titleMark' \in [{"events", "graph"} \X {"contract", "contract_ojs", "eu_cohesion"} -> Nat]
    BY <1>0, <1>1, <1>2, <1>w DEF TitleTypes
  <2>. QED  BY <1>0, <1>1, <1>3, <2>1 DEF TitleTypes
<1>7. RunShape'
  <2>1. Len(titleRun.ends) < Len(Passes) /\ Len(titleRun.ends) <= 2
        /\ Len(titleRun.ends) \in {0, 1}
        /\ titleRun.end \in 1..Len(titleLog)
    BY <1>0, <1>1, <1>2, GraphPass DEF RunShape
  <2>2. ASSUME NEW k \in 1..Len(titleRun.ends)
        PROVE  titleRun.ends[k] \in 1..GraphMark(GraphDomain[k])'
    <3>1. titleRun.ends[k] \in 1..GraphMark(GraphDomain[k])
      BY <1>0, <1>1, <1>2 DEF RunShape
    <3>2. k = 1 /\ GraphDomain[k] = "contract"
      <4>1. \A m \in {0, 1} : \A j \in 1..m : j = 1
        OBVIOUS
      <4>2. k = 1
        BY <2>1, <4>1
      <4>. QED  BY <4>2, PassNames
    <3>3. GraphMark("contract") \in Nat
      BY <1>0, MarksAreNumbers
    <3>. QED  BY <1>2, <1>5, <3>1, <3>2, <3>3
  <2>. QED  BY <1>1, <1>3, <1>4, <2>1, <2>2 DEF RunShape
<1>8. EventsFirst'
  BY <1>3 DEF EventsFirst
<1>9. MarksInLog'
  BY <1>0, <1>1, <1>2, <1>5 DEF MarksInLog
<1>10. \A d \in {"contract", "eu_cohesion"} :
         WrittenTo(d)' = WrittenTo(d) /\ (HasBegun(d)' => HasBegun(d))
  BY <1>1, <1>3, <1>4, <1>5, <1>p, <1>w DEF WrittenTo, HasBegun
<1>11. StatedIsShown'
  BY <1>0, <1>1, <1>10, PassNames DEF StatedIsShown, StatesLast
<1>12. GuessesAreGone'
  BY <1>0, <1>1, <1>10, PassNames DEF GuessesAreGone, NoneStates
<1>. QED  BY <1>6, <1>7, <1>8, <1>9, <1>11, <1>12 DEF TitleInv

\* A pass ends where its cursor has reached the end that it began with.
LEMMA EndPassKeeps == ASSUME TitleInv, EndPass PROVE TitleInv'
<1>0. TitleTypes /\ RunShape /\ EventsFirst /\ MarksInLog /\ StatedIsShown /\ GuessesAreGone
  BY DEF TitleInv
<1>1. /\ titleRun.pc \in {"events", "graph"} /\ ~titleRun.written
      /\ titleMark[Stage] >= titleRun.end
      /\ titleRun' = [titleRun EXCEPT !.pc = "next", !.ends = Append(@, titleRun.end)]
      /\ UNCHANGED <<titleLog, titleMap, titleMark, shown, sinkAt>>
  BY DEF EndPass
<1>end. PICK end : end = titleRun.end
  OBVIOUS
<1>ends. PICK ends : ends = titleRun.ends
  OBVIOUS
<1>2. /\ DOMAIN titleRun' = {"pc", "stage", "end", "ends", "written"}
      /\ titleRun'.pc = "next" /\ titleRun'.stage = titleRun.stage
      /\ titleRun'.ends = Append(ends, end) /\ ~titleRun'.written
  BY <1>0, <1>1, <1>end, <1>ends DEF TitleTypes
<1>3. /\ end \in Nat /\ end \in 1..Len(titleLog) /\ ends \in Seq(Nat)
      /\ titleRun.stage = titleRun.pc
  BY <1>0, <1>1, <1>end, <1>ends, TitleLen DEF TitleTypes, RunShape
<1>4. /\ Append(ends, end) \in Seq(Nat) /\ Len(Append(ends, end)) = Len(ends) + 1
      /\ Append(ends, end)[Len(ends) + 1] = end
      /\ \A k \in 1..Len(ends) : Append(ends, end)[k] = ends[k]
  BY <1>3, AppendProperties
<1>5. \A d : GraphMark(d)' = GraphMark(d)
  BY <1>1 DEF GraphMark
<1>6. TitleTypes'
  BY <1>0, <1>1, <1>2, <1>4 DEF TitleTypes
<1>7. RunShape'
  <2>. SUFFICES ASSUME titleRun.stage = "graph"
                PROVE  /\ Len(ends) + 1 <= 2
                       /\ \A k \in 1..(Len(ends) + 1) :
                            Append(ends, end)[k] \in 1..GraphMark(GraphDomain[k])
    BY <1>1, <1>2, <1>3, <1>4, <1>5 DEF RunShape
  <2>1. /\ Len(ends) \in {0, 1} /\ GraphDomain[Len(ends) + 1] = PassInHand
        /\ PassInHand \in {"contract", "eu_cohesion"}
        /\ GraphMark(PassInHand) >= end
    BY <1>0, <1>1, <1>3, <1>end, <1>ends, GraphPass
  <2>2. GraphMark(PassInHand) \in Nat
    BY <1>0, <2>1, MarksAreNumbers
  <2>3. end \in 1..GraphMark(PassInHand)
    <3>1. end >= 1
      BY <1>0, <1>3, TitleLen
    <3>. QED  BY <1>3, <2>1, <2>2, <3>1
  <2>4. \A k \in 1..Len(ends) : ends[k] \in 1..GraphMark(GraphDomain[k])
    BY <1>0, <1>1, <1>3, <1>ends DEF RunShape
  <2>5. ASSUME NEW k \in 1..(Len(ends) + 1)
        PROVE  Append(ends, end)[k] \in 1..GraphMark(GraphDomain[k])
    <3>1. CASE k = Len(ends) + 1
      BY <1>4, <2>1, <2>3, <3>1
    <3>2. CASE k # Len(ends) + 1
      <4>1. k \in 1..Len(ends)
        BY <2>1, <3>2
      <4>. QED  BY <1>4, <2>4, <4>1
    <3>. QED  BY <3>1, <3>2
  <2>. QED  BY <2>1, <2>5
<1>8. EventsFirst'
  BY <1>0, <1>1, <1>2, <1>3, <1>5 DEF EventsFirst
<1>9. MarksInLog'
  BY <1>0, <1>1, <1>5 DEF MarksInLog
<1>10. \A d : WrittenTo(d)' = WrittenTo(d) /\ (HasBegun(d)' => HasBegun(d))
  BY <1>1, <1>2, <1>5 DEF WrittenTo, HasBegun
<1>11. StatedIsShown'
  BY <1>0, <1>1, <1>10 DEF StatedIsShown, StatesLast
<1>12. GuessesAreGone'
  BY <1>0, <1>1, <1>10 DEF GuessesAreGone, NoneStates
<1>. QED  BY <1>6, <1>7, <1>8, <1>9, <1>11, <1>12 DEF TitleInv

\* A stage that is through clears only notices whose source states no language.
LEMMA EndStageKeeps == ASSUME TitleInv, EndStage PROVE TitleInv'
<1>0. TitleTypes /\ RunShape /\ EventsFirst /\ MarksInLog /\ StatedIsShown /\ GuessesAreGone
  BY DEF TitleInv
<1>1. /\ titleRun.pc = "next" /\ Len(titleRun.ends) = Len(Passes)
      /\ titleRun' = IF titleRun.stage = "graph" THEN [titleRun EXCEPT !.pc = "over"]
                                                 ELSE TitleIdle
      /\ UNCHANGED <<titleLog, titleMap, titleMark, sinkAt>>
  BY DEF EndStage
<1>2. /\ DOMAIN titleRun' = {"pc", "stage", "end", "ends", "written"}
      /\ ~titleRun'.written /\ ~titleRun.written /\ titleRun'.ends \in Seq(Nat)
      /\ titleRun'.pc \in {"idle", "over"}
      /\ titleRun'.pc = "over" =>
           titleRun.stage = "graph" /\ titleRun'.stage = "graph" /\ titleRun'.ends = titleRun.ends
  BY <1>0, <1>1, EmptySeq DEF TitleTypes, RunShape, TitleIdle
<1>c. PICK cleared : cleared = {i \in TitleId :
        titleRun.stage = "graph" /\ i \in PubId /\ titleMap[i] = NoTongue}
  OBVIOUS
<1>3. shown' = [i \in TitleId |-> IF i \in cleared THEN NoTongue ELSE shown[i]]
  BY <1>c DEF EndStage
<1>4. /\ DOMAIN shown' = TitleId /\ shown' = [i \in TitleId |-> shown'[i]]
      /\ \A i \in TitleId : shown'[i] = IF i \in cleared THEN NoTongue ELSE shown[i]
  BY <1>3
<1>5. \A d : GraphMark(d)' = GraphMark(d)
  BY <1>1 DEF GraphMark
<1>6. TitleTypes'
  BY <1>0, <1>1, <1>2, <1>4 DEF TitleTypes
<1>7. RunShape'
  <2>1. titleRun.stage = "graph" => Len(titleRun.ends) = 2
    BY <1>1, PassNames DEF Passes
  <2>. QED  BY <1>0, <1>1, <1>2, <1>5, <2>1 DEF RunShape
<1>8. EventsFirst'
  BY <1>2 DEF EventsFirst
<1>9. MarksInLog'
  BY <1>0, <1>1, <1>5 DEF MarksInLog
<1>10. \A d : WrittenTo(d)' = WrittenTo(d) /\ (HasBegun(d)' => HasBegun(d))
  BY <1>1, <1>2, <1>5 DEF WrittenTo, HasBegun
<1>11. StatedIsShown'
  <2>. SUFFICES ASSUME NEW i \in TitleId, NEW n \in DOMAIN titleLog,
                       StatesLast(i, n), n <= sinkAt, n <= WrittenTo(DomainOf(i))
                PROVE  shown'[i] = titleLog[n].lang \/ (i \in PubId /\ titleMap[i] = NoTongue)
    BY <1>1, <1>10 DEF StatedIsShown, StatesLast
  <2>. QED  BY <1>0, <1>4, <1>c DEF StatedIsShown
<1>12. GuessesAreGone'
  <2>. SUFFICES ASSUME NEW i \in TitleId \ PubId, NoneStates(i), HasBegun(DomainOf(i))
                PROVE  shown'[i] = NoTongue
    BY <1>1, <1>10 DEF GuessesAreGone, NoneStates
  <2>. QED  BY <1>0, <1>4 DEF GuessesAreGone
<1>. QED  BY <1>6, <1>7, <1>8, <1>9, <1>11, <1>12 DEF TitleInv

\* A run that dies between a window and its cursor leaves the window to be redone.
LEMMA TitleRunDiesKeeps == ASSUME TitleInv, TitleRunDies PROVE TitleInv'
<1>0. TitleTypes /\ RunShape /\ EventsFirst /\ MarksInLog /\ StatedIsShown /\ GuessesAreGone
  BY DEF TitleInv
<1>1. /\ titleRun.pc \in {"events", "graph"} /\ titleRun' = TitleIdle
      /\ UNCHANGED <<titleLog, titleMap, titleMark, shown, sinkAt>>
  BY DEF TitleRunDies
<1>2. /\ titleRun'.pc = "idle" /\ ~titleRun'.written /\ titleRun'.ends = <<>>
      /\ DOMAIN titleRun' = {"pc", "stage", "end", "ends", "written"}
  BY <1>1 DEF TitleIdle
<1>3. \A d : GraphMark(d)' = GraphMark(d) /\ WrittenTo(d)' = GraphMark(d)
              /\ (HasBegun(d)' => HasBegun(d))
  BY <1>1, <1>2 DEF GraphMark, WrittenTo, HasBegun
<1>4. ASSUME NEW d \in {"contract", "eu_cohesion"}
      PROVE  GraphMark(d) \in Nat /\ WrittenTo(d) \in Nat /\ GraphMark(d) <= WrittenTo(d)
  <2>1. GraphMark(d) \in Nat
    BY <1>0, MarksAreNumbers
  <2>2. CASE titleRun.pc = "graph" /\ titleRun.written /\ PassInHand = d
    <3>1. titleMark[Stage] < titleRun.end
      BY <1>0, <2>2 DEF RunShape
    <3>2. WindowEnd \in Nat /\ GraphMark(d) < WindowEnd
      BY <1>0, <2>2, <3>1, WindowInLog
    <3>. QED  BY <2>1, <2>2, <3>2 DEF WrittenTo
  <2>. QED  BY <2>1, <2>2 DEF WrittenTo
<1>5. TitleTypes'
  BY <1>0, <1>1, <1>2, EmptySeq DEF TitleTypes
<1>6. RunShape' /\ EventsFirst'
  BY <1>2 DEF RunShape, EventsFirst
<1>7. MarksInLog'
  BY <1>0, <1>1, <1>3 DEF MarksInLog
<1>8. StatedIsShown'
  <2>. SUFFICES ASSUME NEW i \in TitleId, NEW n \in DOMAIN titleLog,
                       StatesLast(i, n), n <= sinkAt, n <= GraphMark(DomainOf(i))
                PROVE  shown[i] = titleLog[n].lang \/ (i \in PubId /\ titleMap[i] = NoTongue)
    BY <1>1, <1>3 DEF StatedIsShown, StatesLast
  <2>1. n \in Nat
    BY <1>0, TitleLen
  <2>2. n <= WrittenTo(DomainOf(i))
    BY <1>4, <2>1, PassNames
  <2>. QED  BY <1>0, <2>2 DEF StatedIsShown
<1>9. GuessesAreGone'
  BY <1>0, <1>1, <1>3 DEF GuessesAreGone, NoneStates
<1>. QED  BY <1>5, <1>6, <1>7, <1>8, <1>9 DEF TitleInv

LEMMA TitleStep == TitleInv /\ [TitleNext]_titleVars => TitleInv'
<1>. SUFFICES ASSUME TitleInv, [TitleNext]_titleVars PROVE TitleInv'
  OBVIOUS
<1>1. CASE UNCHANGED titleVars
  <2>0. TitleTypes /\ RunShape /\ EventsFirst /\ MarksInLog /\ StatedIsShown /\ GuessesAreGone
    BY DEF TitleInv
  <2>1. UNCHANGED <<titleLog, titleMap, titleMark, shown, sinkAt, titleRun>>
    BY <1>1 DEF titleVars
  <2>2. /\ PassInHand' = PassInHand /\ Passes' = Passes /\ Stage' = Stage /\ WindowEnd' = WindowEnd
        /\ \A d : GraphMark(d)' = GraphMark(d)
    BY <2>1 DEF Passes, PassInHand, Stage, WindowEnd, GraphMark
  <2>3. \A d : WrittenTo(d)' = WrittenTo(d) /\ HasBegun(d)' = HasBegun(d)
    BY <2>1, <2>2 DEF WrittenTo, HasBegun
  <2>4. TitleTypes'
    BY <2>0, <2>1 DEF TitleTypes
  <2>5. RunShape'
    BY <2>0, <2>1, <2>2 DEF RunShape
  <2>6. EventsFirst' /\ MarksInLog'
    BY <2>0, <2>1, <2>2 DEF EventsFirst, MarksInLog
  <2>7. StatedIsShown'
    BY <2>0, <2>1, <2>3 DEF StatedIsShown, StatesLast
  <2>8. GuessesAreGone'
    BY <2>0, <2>1, <2>3 DEF GuessesAreGone, NoneStates
  <2>. QED  BY <2>4, <2>5, <2>6, <2>7, <2>8 DEF TitleInv
<1>. QED
  BY <1>1, EmitTitleKeeps, SinkTitleKeeps, MapTitleKeeps, BeginStageKeeps, BeginPassKeeps,
     EventsWindowKeeps, GraphWindowKeeps, GraphCursorKeeps, EndPassKeeps, EndStageKeeps,
     TitleRunDiesKeeps DEF TitleNext

LEMMA GreatestNumber ==
  ASSUME NEW n \in Nat, NEW T, T \subseteq 0..n, T # {}
  PROVE \E x \in T : \A y \in T : x >= y
<1>. DEFINE Less == {p \in Nat \X Nat : p[1] < p[2]}
           Left == {n - x : x \in T}
<1>1. IsWellFoundedOn(Less, Nat) BY NatLessThanWellFounded DEF OpToRel
<1>2. ASSUME NEW x \in Nat, NEW y \in Nat, x < y PROVE <<x, y>> \in Less BY <1>2
<1>3. Left \subseteq Nat /\ Left # {}
  <2>1. \A x \in T : n - x \in Nat OBVIOUS
  <2>. QED BY <2>1
<1>4. ASSUME NEW x \in T PROVE n - x \in Left OBVIOUS
<1>5. ASSUME NEW m \in Left PROVE \E x \in T : m = n - x OBVIOUS
<1>. HIDE DEF Less, Left
<1>6. PICK m \in Left : \A l \in Left : ~(<<l, m>> \in Less) BY <1>1, <1>3, WFMin, Zenon
<1>7. PICK x \in T : m = n - x BY <1>5
<1>8. ASSUME NEW y \in T PROVE x >= y
  <2>1. n - y \in Nat /\ m \in Nat BY <1>3, <1>4
  <2>2. ~(n - y < m) BY <1>2, <1>4, <1>6, <2>1, Zenon
  <2>. QED BY <1>7, <2>1, <2>2
<1>. QED BY <1>8

\* When the graph stage is through, its marks are past the ends of its passes.
LEMMA TitlesShow == TitleInv => GraphShowsStated
<1>. SUFFICES ASSUME TitleInv, titleRun.pc = "over", sinkAt = Len(titleLog), NEW i \in TitleId,
                     \A n \in {n \in DOMAIN titleLog : titleLog[n].id = i} :
                       n <= titleRun.ends[IF i \in KohesioId THEN 2 ELSE 1]
              PROVE  LET stating == {n \in {n \in DOMAIN titleLog : titleLog[n].id = i} :
                                      titleLog[n].lang # NoTongue} IN
                     IF stating # {}
                       THEN \/ i \in PubId /\ titleMap[i] = NoTongue
                            \/ \E n \in stating :
                                 shown[i] = titleLog[n].lang /\ \A o \in stating : o <= n
                       ELSE i \notin PubId => shown[i] = NoTongue
  BY DEF GraphShowsStated
<1>0. TitleTypes /\ RunShape /\ MarksInLog /\ StatedIsShown /\ GuessesAreGone
  BY DEF TitleInv
<1>s. PICK stating : stating = {n \in DOMAIN titleLog :
                                  titleLog[n].id = i /\ titleLog[n].lang # NoTongue}
  OBVIOUS
<1>k. PICK k \in {1, 2} : k = (IF i \in KohesioId THEN 2 ELSE 1)
  OBVIOUS
<1>1. GraphDomain[k] = DomainOf(i)
  BY <1>k, PassNames DEF DomainOf
<1>2. GraphMark(DomainOf(i)) \in Nat /\ WrittenTo(DomainOf(i)) = GraphMark(DomainOf(i))
  BY <1>0, MarksAreNumbers, PassNames DEF RunShape, WrittenTo
<1>3. titleRun.ends[k] \in 1..GraphMark(DomainOf(i))
  <2>1. Len(titleRun.ends) = 2 /\ titleRun.stage = "graph"
    BY <1>0 DEF RunShape
  <2>2. k \in 1..Len(titleRun.ends)
    BY <2>1
  <2>. QED  BY <1>0, <1>1, <2>1, <2>2 DEF RunShape
<1>4. DOMAIN titleLog = 1..Len(titleLog) /\ Len(titleLog) \in Nat
  BY <1>0, TitleLen
<1>5. \A n \in stating : n \in 1..Len(titleLog) /\ n <= GraphMark(DomainOf(i))
  BY <1>2, <1>3, <1>4, <1>k, <1>s
<1>6. CASE stating # {}
  <2>1. stating \subseteq 0..Len(titleLog)
    BY <1>4, <1>5
  <2>2. PICK n \in stating : \A o \in stating : n >= o
    BY <1>4, <1>6, <2>1, GreatestNumber
  <2>3. StatesLast(i, n)
    <3>1. ASSUME NEW o \in DOMAIN titleLog, o > n, titleLog[o].id = i
          PROVE  titleLog[o].lang = NoTongue
      <4>1. o \notin stating
        BY <1>4, <1>5, <2>2, <3>1
      <4>. QED  BY <1>s, <3>1, <4>1
    <3>. QED  BY <1>s, <3>1 DEF StatesLast
  <2>4. n \in DOMAIN titleLog /\ n <= sinkAt /\ n <= WrittenTo(DomainOf(i))
    BY <1>2, <1>4, <1>5
  <2>5. shown[i] = titleLog[n].lang \/ (i \in PubId /\ titleMap[i] = NoTongue)
    BY <1>0, <2>3, <2>4 DEF StatedIsShown
  <2>6. \A o \in stating : o <= n
    BY <1>4, <1>5, <2>2
  <2>. QED  BY <1>6, <1>s, <2>5, <2>6
<1>7. CASE stating = {} /\ i \notin PubId
  <2>1. NoneStates(i)
    BY <1>7, <1>s DEF NoneStates
  <2>2. HasBegun(DomainOf(i))
    BY <1>2, <1>3 DEF HasBegun
  <2>. QED  BY <1>0, <1>7, <1>s, <2>1, <2>2 DEF GuessesAreGone
<1>. QED  BY <1>6, <1>7, <1>s

\* migrate_title_lang.py: when the graph stage is through and the sink has caught
\* up, a node of which nothing was emitted since shows the language of the last
\* event that states one, or no guess; for any window, languages and notices, any
\* order in which sink and migration wrote, and runs that die anywhere.
THEOREM TitlesAreShown == TitleSpec => []GraphShowsStated
BY TitleInitially, TitleStep, TitlesShow, PTL DEF TitleSpec

----------------------------------------------------------------------------
(* NutsLinks: what the linker owes is done or in hand, and an entity that has not *)
(* moved is only in regions that one of the two jobs reads for its postcode. *)

\* The regions that a sync has behind it are in the graph, and those that it has
\* written are part of their parents.
RegionsInv ==
  /\ withCountry \subseteq NutsCode /\ nutsSync \subseteq NutsCode
  /\ \A c \in withCountry : Level(c) > 0 => c \in nutsPartOf
  /\ nutsSync # {} => NutsCode \ nutsSync \subseteq nutsNodes

LinkerShape ==
  /\ DOMAIN linker = {"pc", "labels", "rows", "linkable", "owed"}
  /\ DOMAIN address = Place
  /\ linker.pc \notin {"postcode", "edges"} => linker.rows = {}

\* A country is linkable once it has a region, and keeps it.
LinkableInv ==
  \A a \in linker.linkable : \E c \in withCountry : Level(c) = 0 /\ CountryOf(c) = a

\* A row is what its entity's postcode says, unless the entity moved since.
RowsInv ==
  linker.pc = "postcode" =>
    \A r \in linker.rows :
      /\ r = <<r[1], r[2]>> /\ Level(r[2]) = 3 /\ r[1] \in Place
      /\ r[1] \notin moved => /\ address[r[1]].postcode # NoPostCode
                              /\ r[2] = PostcodeRegion(address[r[1]])

PostalInv ==
  \A r \in postalRows :
    /\ r = <<r[1], r[2]>> /\ r[1] \in Place
    /\ r[1] \notin moved => /\ address[r[1]].postcode # NoPostCode
                            /\ r[2] = PostalResolved(address[r[1]])

\* In the second pass a row has a country that is linkable.
EdgesInv ==
  linker.pc = "edges" =>
    \A r \in linker.rows : r = <<r[1], r[2]>> /\ r[2] \in linker.linkable

\* So is the region of level 3 that an entity is in, for one of the two jobs.
LocatedInv ==
  \A p \in located :
    /\ p = <<p[1], p[2]>>
    /\ p[1] \in Place \ moved /\ Level(p[2]) = 3 =>
         /\ address[p[1]].postcode # NoPostCode
         /\ p[2] \in {PostcodeRegion(address[p[1]]), PostalResolved(address[p[1]])}

\* What the linker owes is done or in hand.
OwedInv ==
  \A o \in linker.owed :
    IF o[2] = 3
      THEN \/ In3(o[1]) # {}
           \/ /\ linker.pc = "postcode"
              /\ \E r \in linker.rows : r[1] = o[1] /\ r[2] \in nutsNodes
      ELSE \/ InAny(o[1]) # {}
           \/ o[1] \in moved
           \/ /\ linker.pc \in {"country", "edges"} /\ o[1] \in Known(Head(linker.labels))
              /\ address[o[1]].country \in linker.linkable

NutsInv ==
  /\ RegionsInv /\ LinkerShape /\ LinkableInv /\ RowsInv /\ PostalInv /\ EdgesInv
  /\ LocatedInv /\ OwedInv

LEMMA LeastNumber ==
  ASSUME NEW T, T \subseteq Nat, T # {}
  PROVE  \E x \in T : \A y \in T : x <= y
<1>. DEFINE Less == {p \in Nat \X Nat : p[1] < p[2]}
<1>1. IsWellFoundedOn(Less, Nat)
  BY NatLessThanWellFounded DEF OpToRel
<1>2. ASSUME NEW x \in Nat, NEW y \in Nat, x < y
      PROVE  <<x, y>> \in Less
  BY <1>2
<1>. HIDE DEF Less
<1>3. PICK x \in T : \A y \in T : ~(<<y, x>> \in Less)
  BY <1>1, WFMin, Zenon
<1>4. ASSUME NEW y \in T
      PROVE  x <= y
  <2>1. ~(y < x)
    BY <1>2, <1>3, Zenon
  <2>. QED  BY <2>1
<1>. QED  BY <1>4

\* A postcode that is in the table has a region of level 3.
LEMMA PostcodeLevel ==
  ASSUME NEW a, PostcodeRegion(a) # NoRegion
  PROVE  Level(PostcodeRegion(a)) = 3 /\ a.postcode # NoPostCode
<1>r. PICK rows : rows = RowsOf(a, "norm")
  OBVIOUS
<1>1. a.postcode # NoPostCode /\ rows # {} /\ PostcodeRegion(a) = PostCodeRow[Min(rows)][1]
  BY <1>r DEF PostcodeRegion
<1>2. rows \subseteq DOMAIN PostCodeRow /\ rows \subseteq Nat
  BY <1>r, NutsAssumption DEF RowsOf
<1>3. \E x \in rows : \A y \in rows : x <= y
  BY <1>1, <1>2, LeastNumber
<1>4. Min(rows) \in rows
  BY <1>3 DEF Min
<1>. QED  BY <1>1, <1>2, <1>4, NutsAssumption

LEMMA ParentLevel ==
  ASSUME NEW c \in NutsCode, Level(c) > 0
  PROVE  ParentCode(c) \in NutsCode /\ Level(ParentCode(c)) = Level(c) - 1 /\ Level(c) \in Nat
<1>1. c \in Seq(STRING) /\ Len(c) \in 1..4
  BY NutsAssumption
<1>2. Len(c) > 1
  BY <1>1 DEF Level
<1>3. Len(SubSeq(c, 1, Len(c) - 1)) = Len(c) - 1
  BY <1>1, <1>2, SubSeqProperties
<1>. QED  BY <1>1, <1>2, <1>3, NutsAssumption DEF Level, ParentCode

LEMMA NutsInitially == NutsInit => NutsInv
<1>. SUFFICES ASSUME NutsInit PROVE NutsInv
  OBVIOUS
<1>1. /\ nutsNodes \subseteq NutsCode /\ withCountry = nutsNodes /\ nutsSync = {}
      /\ nutsPartOf = {c \in nutsNodes : Level(c) > 0}
      /\ address = [e \in Place |-> NoAddress] /\ located = {} /\ linker = LinkerIdle
      /\ postalRows = {}
  BY DEF NutsInit
<1>2. RegionsInv
  BY <1>1 DEF RegionsInv
<1>3. /\ DOMAIN linker = {"pc", "labels", "rows", "linkable", "owed"}
      /\ linker.pc = "idle" /\ linker.rows = {} /\ linker.linkable = {} /\ linker.owed = {}
  BY <1>1 DEF LinkerIdle
<1>. QED
  BY <1>1, <1>2, <1>3
  DEF NutsInv, LinkerShape, LinkableInv, RowsInv, PostalInv, EdgesInv, LocatedInv, OwedInv

\* An entity whose address changes counts as moved, unless it had none or gains a
\* postcode in its country.
LEMMA PlaceMovesKeeps == ASSUME NutsInv, PlaceMoves PROVE NutsInv'
<1>0. /\ RegionsInv /\ LinkerShape /\ LinkableInv /\ RowsInv /\ PostalInv /\ EdgesInv
      /\ LocatedInv /\ OwedInv
  BY DEF NutsInv
<1>1. UNCHANGED <<nutsNodes, withCountry, nutsPartOf, nutsSync, located, linker, postalRows>>
  BY DEF PlaceMoves, regionVars, postalVars
<1>2. PICK e \in Place, a2 \in DOMAIN Alpha3, p \in PostCode \union {NoPostCode} :
        /\ address' = [address EXCEPT ![e] = [country |-> Alpha3[a2], postcode |-> p]]
        /\ moved' = IF \/ address[e] = NoAddress
                       \/ address[e] = [country |-> Alpha3[a2], postcode |-> NoPostCode]
                      THEN moved ELSE moved \union {e}
  BY DEF PlaceMoves
<1>new. PICK new : new = [country |-> Alpha3[a2], postcode |-> p]
  OBVIOUS
<1>bare. PICK bare : bare = [country |-> new.country, postcode |-> NoPostCode]
  OBVIOUS
<1>3. /\ DOMAIN address' = Place
      /\ \A x \in Place : address'[x] = IF x = e THEN new ELSE address[x]
      /\ moved' = IF address[e] = NoAddress \/ address[e] = bare THEN moved ELSE moved \union {e}
  BY <1>0, <1>2, <1>new, <1>bare DEF LinkerShape
<1>4. NoAddress.postcode = NoPostCode /\ bare.postcode = NoPostCode /\ bare.country = new.country
  BY <1>bare DEF NoAddress
<1>5. \A x \in Place : x \notin moved' /\ address[x].postcode # NoPostCode =>
        x \notin moved /\ address'[x] = address[x]
  BY <1>3, <1>4
<1>6. \A x \in Place : x \notin moved' /\ address[x] # NoAddress =>
        address'[x].country = address[x].country /\ address'[x] # NoAddress
  <2>. SUFFICES ASSUME NEW x \in Place, x \notin moved', address[x] # NoAddress, x = e
                PROVE  new.country = address[e].country /\ new # NoAddress
    BY <1>3
  <2>1. address[e] = bare
    BY <1>3
  <2>2. new # NoAddress
    BY <1>bare, <2>1 DEF NoAddress
  <2>. QED  BY <1>4, <2>1, <2>2
<1>7. RegionsInv' /\ LinkerShape' /\ LinkableInv' /\ EdgesInv'
  BY <1>0, <1>1, <1>3 DEF RegionsInv, LinkerShape, LinkableInv, EdgesInv
<1>p. PostalInv'
  <2>. SUFFICES ASSUME NEW r \in postalRows, r[1] \notin moved'
                PROVE  /\ address'[r[1]].postcode # NoPostCode
                       /\ r[2] = PostalResolved(address'[r[1]])
    BY <1>0, <1>1 DEF PostalInv
  <2>1. r[1] \in Place /\ r[1] \notin moved
    BY <1>0, <1>3 DEF PostalInv
  <2>2. address[r[1]].postcode # NoPostCode /\ r[2] = PostalResolved(address[r[1]])
    BY <1>0, <2>1 DEF PostalInv
  <2>3. address'[r[1]] = address[r[1]]
    BY <1>5, <2>1, <2>2
  <2>. QED  BY <2>2, <2>3
<1>8. RowsInv'
  <2>. SUFFICES ASSUME linker.pc = "postcode", NEW r \in linker.rows, r[1] \notin moved'
                PROVE  /\ address'[r[1]].postcode # NoPostCode
                       /\ r[2] = PostcodeRegion(address'[r[1]])
    BY <1>0, <1>1 DEF RowsInv
  <2>1. r[1] \in Place /\ r[1] \notin moved
    BY <1>0, <1>3 DEF RowsInv
  <2>2. address[r[1]].postcode # NoPostCode /\ r[2] = PostcodeRegion(address[r[1]])
    BY <1>0, <2>1 DEF RowsInv
  <2>3. address'[r[1]] = address[r[1]]
    BY <1>5, <2>1, <2>2
  <2>. QED  BY <2>2, <2>3
<1>9. LocatedInv'
  <2>. SUFFICES ASSUME NEW q \in located, q[1] \in Place \ moved', Level(q[2]) = 3
                PROVE  /\ address'[q[1]].postcode # NoPostCode
                       /\ q[2] \in {PostcodeRegion(address'[q[1]]), PostalResolved(address'[q[1]])}
    BY <1>0, <1>1 DEF LocatedInv
  <2>1. q[1] \in Place \ moved
    BY <1>3
  <2>2. /\ address[q[1]].postcode # NoPostCode
        /\ q[2] \in {PostcodeRegion(address[q[1]]), PostalResolved(address[q[1]])}
    BY <1>0, <2>1 DEF LocatedInv
  <2>3. address'[q[1]] = address[q[1]]
    BY <1>5, <2>1, <2>2
  <2>. QED  BY <2>2, <2>3
<1>l. PICK first : first = Head(linker.labels)
  OBVIOUS
<1>10. OwedInv'
  <2>1. \A x : x \in Known(first) /\ x \notin moved' =>
               x \in Known(first)' /\ address'[x].country = address[x].country
    BY <1>6 DEF Known
  <2>2. \A x : In3(x)' = In3(x) /\ InAny(x)' = InAny(x)
    BY <1>1 DEF In3, InAny
  <2>3. moved \subseteq moved'
    BY <1>3
  <2>4. Head(linker'.labels) = first
    BY <1>1, <1>l
  <2>5. ASSUME NEW o \in linker.owed
        PROVE  IF o[2] = 3
                 THEN \/ In3(o[1]) # {}
                      \/ /\ linker.pc = "postcode"
                         /\ \E r \in linker.rows : r[1] = o[1] /\ r[2] \in nutsNodes
                 ELSE \/ InAny(o[1]) # {}
                      \/ o[1] \in moved'
                      \/ /\ linker.pc \in {"country", "edges"} /\ o[1] \in Known(first)'
                         /\ address'[o[1]].country \in linker.linkable
    BY <1>0, <1>l, <2>1, <2>3 DEF OwedInv
  <2>. QED  BY <1>1, <2>2, <2>4, <2>5 DEF OwedInv
<1>. QED  BY <1>7, <1>p, <1>8, <1>9, <1>10 DEF NutsInv

\* The regions only become more.
LEMMA RegionsGrow ==
  ASSUME NutsInv, nutsNodes \subseteq nutsNodes', withCountry \subseteq withCountry', RegionsInv',
         UNCHANGED <<address, moved, located, linker, postalRows>>
  PROVE  NutsInv'
<1>0. /\ LinkerShape /\ LinkableInv /\ RowsInv /\ PostalInv /\ EdgesInv /\ LocatedInv
      /\ OwedInv
  BY DEF NutsInv
<1>1. LinkerShape' /\ LinkableInv' /\ RowsInv' /\ PostalInv' /\ EdgesInv' /\ LocatedInv'
  BY <1>0 DEF LinkerShape, LinkableInv, RowsInv, PostalInv, EdgesInv, LocatedInv
<1>2. \A x : In3(x)' = In3(x) /\ InAny(x)' = InAny(x) /\ Known(x)' = Known(x)
  BY DEF In3, InAny, Known
<1>3. OwedInv'
  <2>. SUFFICES ASSUME NEW o \in linker.owed
                PROVE  IF o[2] = 3
                         THEN \/ In3(o[1]) # {}
                              \/ /\ linker.pc = "postcode"
                                 /\ \E r \in linker.rows : r[1] = o[1] /\ r[2] \in nutsNodes'
                         ELSE \/ InAny(o[1]) # {}
                              \/ o[1] \in moved
                              \/ /\ linker.pc \in {"country", "edges"} /\ o[1] \in Known(Head(linker.labels))
                                 /\ address[o[1]].country \in linker.linkable
    BY <1>2 DEF OwedInv
  <2>. QED  BY <1>0 DEF OwedInv
<1>. QED  BY <1>1, <1>3 DEF NutsInv

LEMMA StartNutsSyncKeeps == ASSUME NutsInv, StartNutsSync PROVE NutsInv'
<1>1. /\ nutsSync' = NutsCode
      /\ UNCHANGED <<nutsNodes, withCountry, nutsPartOf, address, moved, located, linker,
                    postalRows>>
  BY DEF StartNutsSync, placeVars, postalVars
<1>2. RegionsInv'
  BY <1>1 DEF NutsInv, RegionsInv
<1>. QED  BY <1>1, <1>2, RegionsGrow

\* A region's parent is of the level before, which the sync has behind it.
LEMMA SyncNutsKeeps == ASSUME NutsInv, SyncNuts PROVE NutsInv'
<1>0. RegionsInv
  BY DEF NutsInv
<1>1. PICK rows \in SUBSET NextLevel(nutsSync) :
        /\ nutsNodes' = nutsNodes \union rows /\ withCountry' = withCountry \union rows
        /\ nutsPartOf' = nutsPartOf \union
             {c \in rows : Level(c) > 0 /\ ParentCode(c) \in nutsNodes'}
        /\ nutsSync' = nutsSync \ rows
  BY DEF SyncNuts, kSubset
<1>2. nutsSync # {} /\ UNCHANGED <<address, moved, located, linker, postalRows>>
  BY DEF SyncNuts, placeVars, postalVars
<1>3. rows \subseteq nutsSync /\ rows \subseteq NutsCode
  BY <1>0, <1>1 DEF NextLevel, RegionsInv
<1>4. ASSUME NEW c \in rows, Level(c) > 0
      PROVE  ParentCode(c) \in nutsNodes'
  <2>1. /\ ParentCode(c) \in NutsCode /\ Level(ParentCode(c)) = Level(c) - 1
        /\ Level(c) \in Nat
    BY <1>3, <1>4, ParentLevel
  <2>2. \A d \in nutsSync : Level(c) <= Level(d)
    BY <1>1, <1>4 DEF NextLevel
  <2>3. ParentCode(c) \notin nutsSync
    BY <2>1, <2>2
  <2>. QED  BY <1>0, <1>1, <1>2, <2>1, <2>3 DEF RegionsInv
<1>5. RegionsInv'
  BY <1>0, <1>1, <1>2, <1>3, <1>4 DEF RegionsInv
<1>. QED  BY <1>1, <1>2, <1>5, RegionsGrow

LEMMA LoadNutsKeeps == ASSUME NutsInv, LoadNuts PROVE NutsInv'
<1>1. /\ nutsNodes \subseteq nutsNodes'
      /\ UNCHANGED <<withCountry, nutsPartOf, nutsSync, address, moved, located, linker,
                    postalRows>>
  BY DEF LoadNuts, placeVars, postalVars
<1>2. RegionsInv'
  BY <1>1 DEF NutsInv, RegionsInv
<1>. QED  BY <1>1, <1>2, RegionsGrow

LEMMA StartLinkerKeeps == ASSUME NutsInv, StartLinker PROVE NutsInv'
<1>0. RegionsInv /\ LinkerShape /\ PostalInv /\ LocatedInv
  BY DEF NutsInv
<1>1. /\ linker' = [LinkerIdle EXCEPT !.pc = "read", !.labels = Labels]
      /\ UNCHANGED <<nutsNodes, withCountry, nutsPartOf, nutsSync, address, moved, located,
                     postalRows>>
  BY DEF StartLinker, regionVars, placeVars, postalVars
<1>2. /\ DOMAIN linker' = {"pc", "labels", "rows", "linkable", "owed"}
      /\ linker'.pc = "read" /\ linker'.rows = {} /\ linker'.linkable = {} /\ linker'.owed = {}
  BY <1>1 DEF LinkerIdle
<1>. QED
  BY <1>0, <1>1, <1>2
  DEF NutsInv, RegionsInv, LinkerShape, LinkableInv, RowsInv, PostalInv, EdgesInv, LocatedInv,
      OwedInv

\* The rows that are read are owed where their region is in the graph.
LEMMA ReadPostcodesKeeps == ASSUME NutsInv, ReadPostcodes PROVE NutsInv'
<1>0. /\ RegionsInv /\ LinkerShape /\ LinkableInv /\ RowsInv /\ PostalInv /\ EdgesInv
      /\ LocatedInv /\ OwedInv
  BY DEF NutsInv
<1>1. /\ linker.pc = "read" /\ linker.rows = {}
      /\ UNCHANGED <<nutsNodes, withCountry, nutsPartOf, nutsSync, address, moved, located,
                     postalRows>>
  BY <1>0 DEF ReadPostcodes, regionVars, placeVars, postalVars, LinkerShape
<1>2. RegionsInv' /\ PostalInv' /\ LocatedInv'
  BY <1>0, <1>1 DEF RegionsInv, PostalInv, LocatedInv
<1>3. \A x : In3(x)' = In3(x) /\ InAny(x)' = InAny(x)
  BY <1>1 DEF In3, InAny
<1>4. \A o \in linker.owed :
        IF o[2] = 3 THEN In3(o[1]) # {} ELSE InAny(o[1]) # {} \/ o[1] \in moved
  BY <1>0, <1>1 DEF OwedInv
<1>5. CASE linker.labels = <<>>
  <2>1. linker' = [linker EXCEPT !.pc = "list", !.labels = Labels]
    BY <1>5 DEF ReadPostcodes
  <2>2. /\ DOMAIN linker' = {"pc", "labels", "rows", "linkable", "owed"}
        /\ linker'.pc = "list" /\ linker'.rows = {} /\ linker'.owed = linker.owed
        /\ linker'.linkable = linker.linkable
    BY <1>0, <1>1, <2>1 DEF LinkerShape
  <2>3. LinkerShape' /\ LinkableInv' /\ RowsInv' /\ EdgesInv'
    BY <1>0, <1>1, <2>2 DEF LinkerShape, LinkableInv, RowsInv, EdgesInv
  <2>4. OwedInv'
    BY <1>1, <1>3, <1>4, <2>2 DEF OwedInv
  <2>. QED  BY <1>2, <2>3, <2>4 DEF NutsInv
<1>6. CASE linker.labels # <<>>
  <2>rows. PICK rows : rows = PostcodeRows(Head(linker.labels))
    OBVIOUS
  <2>1. linker' = [linker EXCEPT !.pc = "postcode", !.labels = Tail(@), !.rows = rows,
                     !.owed = @ \union {<<r[1], 3>> : r \in {x \in rows : x[2] \in nutsNodes}}]
    BY <1>6, <2>rows DEF ReadPostcodes
  <2>2. /\ DOMAIN linker' = {"pc", "labels", "rows", "linkable", "owed"}
        /\ linker'.pc = "postcode" /\ linker'.rows = rows /\ linker'.linkable = linker.linkable
        /\ linker'.owed = linker.owed \union
             {<<r[1], 3>> : r \in {x \in rows : x[2] \in nutsNodes}}
    BY <1>0, <2>1 DEF LinkerShape
  <2>3. ASSUME NEW r \in rows
        PROVE  /\ r = <<r[1], r[2]>> /\ Level(r[2]) = 3 /\ r[1] \in Place
               /\ address[r[1]].postcode # NoPostCode /\ r[2] = PostcodeRegion(address[r[1]])
    <3>1. PICK e \in Place : r = <<e, PostcodeRegion(address[e])>>
                             /\ PostcodeRegion(address[e]) # NoRegion
      BY <2>rows DEF PostcodeRows, Known
    <3>. QED  BY <3>1, PostcodeLevel
  <2>4. LinkerShape' /\ LinkableInv'
    BY <1>0, <1>1, <2>2 DEF LinkerShape, LinkableInv
  <2>5. RowsInv' /\ EdgesInv'
    BY <1>1, <2>2, <2>3 DEF RowsInv, EdgesInv
  <2>6. OwedInv'
    <3>. SUFFICES ASSUME NEW o \in linker'.owed
                  PROVE  IF o[2] = 3
                           THEN \/ In3(o[1]) # {}
                                \/ \E r \in rows : r[1] = o[1] /\ r[2] \in nutsNodes
                           ELSE InAny(o[1]) # {} \/ o[1] \in moved
      BY <1>1, <1>3, <2>2 DEF OwedInv
    <3>1. CASE o \in linker.owed
      BY <1>4, <3>1
    <3>2. CASE o \notin linker.owed
      <4>1. PICK r \in rows : o = <<r[1], 3>> /\ r[2] \in nutsNodes
        BY <2>2, <3>2
      <4>. QED  BY <4>1
    <3>. QED  BY <3>1, <3>2
  <2>. QED  BY <1>2, <2>4, <2>5, <2>6 DEF NutsInv
<1>. QED  BY <1>5, <1>6

\* A row is written with its region, if that is in the graph.
LEMMA MergePostcodesKeeps == ASSUME NutsInv, MergePostcodes PROVE NutsInv'
<1>0. /\ RegionsInv /\ LinkerShape /\ LinkableInv /\ RowsInv /\ PostalInv /\ EdgesInv
      /\ LocatedInv /\ OwedInv
  BY DEF NutsInv
<1>1. PICK some \in SUBSET linker.rows :
        /\ located' = located \union {r \in some : r[2] \in nutsNodes}
        /\ linker' = [linker EXCEPT !.rows = @ \ some,
                        !.pc = IF linker.rows = some THEN "read" ELSE "postcode"]
  BY DEF MergePostcodes, kSubset
<1>2. /\ linker.pc = "postcode"
      /\ UNCHANGED <<nutsNodes, withCountry, nutsPartOf, nutsSync, address, moved, postalRows>>
  BY DEF MergePostcodes, regionVars, placeVars, postalVars
<1>3. /\ DOMAIN linker' = {"pc", "labels", "rows", "linkable", "owed"}
      /\ linker'.rows = linker.rows \ some /\ linker'.linkable = linker.linkable
      /\ linker'.owed = linker.owed /\ linker'.pc \in {"read", "postcode"}
      /\ linker'.pc # "postcode" => linker'.rows = {}
  BY <1>0, <1>1 DEF LinkerShape
<1>4. RegionsInv' /\ LinkerShape' /\ LinkableInv' /\ RowsInv' /\ PostalInv' /\ EdgesInv'
  BY <1>0, <1>2, <1>3 DEF RegionsInv, LinkerShape, LinkableInv, RowsInv, PostalInv, EdgesInv
<1>5. LocatedInv'
  BY <1>0, <1>1, <1>2 DEF LocatedInv, RowsInv
<1>6. OwedInv'
  <2>. SUFFICES ASSUME NEW o \in linker.owed
                PROVE  IF o[2] = 3
                         THEN \/ In3(o[1])' # {}
                              \/ \E r \in linker.rows \ some : r[1] = o[1] /\ r[2] \in nutsNodes
                         ELSE InAny(o[1])' # {} \/ o[1] \in moved
    BY <1>2, <1>3 DEF OwedInv
  <2>1. In3(o[1]) \subseteq In3(o[1])' /\ InAny(o[1]) \subseteq InAny(o[1])'
    BY <1>1 DEF In3, InAny
  <2>2. ASSUME NEW r \in some, r[1] = o[1], r[2] \in nutsNodes
        PROVE  r \in In3(o[1])'
    BY <1>0, <1>1, <1>2, <2>2 DEF In3, RowsInv
  <2>. QED  BY <1>0, <1>2, <2>1, <2>2 DEF OwedInv
<1>. QED  BY <1>4, <1>5, <1>6 DEF NutsInv

\* The entities of a linkable country are owed a region.
LEMMA ReadLinkableKeeps == ASSUME NutsInv, ReadLinkable PROVE NutsInv'
<1>0. RegionsInv /\ LinkerShape /\ RowsInv /\ PostalInv /\ LocatedInv /\ OwedInv
  BY DEF NutsInv
<1>l. PICK linkable : linkable = {CountryOf(c) : c \in {d \in withCountry : Level(d) = 0}}
  OBVIOUS
<1>w. PICK who : who = {x \in Known(Head(linker.labels)) : address[x].country \in linkable}
  OBVIOUS
<1>1. /\ linker.pc = "list" /\ linker.rows = {}
      /\ linker' = IF linker.labels = <<>> THEN [linker EXCEPT !.pc = "done"]
                   ELSE [linker EXCEPT !.pc = "country", !.linkable = linkable,
                           !.owed = @ \union {<<e, 0>> : e \in who}]
      /\ UNCHANGED <<nutsNodes, withCountry, nutsPartOf, nutsSync, address, moved, located,
                     postalRows>>
  BY <1>0, <1>l, <1>w DEF ReadLinkable, regionVars, placeVars, postalVars, LinkerShape
<1>2. RegionsInv' /\ PostalInv' /\ LocatedInv'
  BY <1>0, <1>1 DEF RegionsInv, PostalInv, LocatedInv
<1>3. \A x : In3(x)' = In3(x) /\ InAny(x)' = InAny(x) /\ Known(x)' = Known(x)
  BY <1>1 DEF In3, InAny, Known
<1>4. \A o \in linker.owed :
        IF o[2] = 3 THEN In3(o[1]) # {} ELSE InAny(o[1]) # {} \/ o[1] \in moved
  BY <1>0, <1>1 DEF OwedInv
<1>5. CASE linker.labels = <<>>
  <2>1. /\ DOMAIN linker' = {"pc", "labels", "rows", "linkable", "owed"}
        /\ linker'.pc = "done" /\ linker'.rows = {} /\ linker'.owed = linker.owed
        /\ linker'.linkable = linker.linkable
    BY <1>0, <1>1, <1>5 DEF LinkerShape
  <2>2. LinkerShape' /\ LinkableInv' /\ RowsInv' /\ EdgesInv'
    BY <1>0, <1>1, <2>1 DEF NutsInv, LinkerShape, LinkableInv, RowsInv, EdgesInv
  <2>3. OwedInv'
    BY <1>1, <1>3, <1>4, <2>1 DEF OwedInv
  <2>. QED  BY <1>2, <2>2, <2>3 DEF NutsInv
<1>6. CASE linker.labels # <<>>
  <2>1. /\ DOMAIN linker' = {"pc", "labels", "rows", "linkable", "owed"}
        /\ linker'.pc = "country" /\ linker'.labels = linker.labels /\ linker'.rows = {}
        /\ linker'.linkable = linkable
        /\ linker'.owed = linker.owed \union {<<e, 0>> : e \in who}
    BY <1>0, <1>1, <1>6 DEF LinkerShape
  <2>2. LinkerShape' /\ RowsInv' /\ EdgesInv'
    BY <1>0, <1>1, <2>1 DEF LinkerShape, RowsInv, EdgesInv
  <2>3. LinkableInv'
    BY <1>1, <1>l, <2>1 DEF LinkableInv
  <2>4. OwedInv'
    <3>. SUFFICES ASSUME NEW o \in linker'.owed
                  PROVE  IF o[2] = 3 THEN In3(o[1]) # {}
                         ELSE InAny(o[1]) # {} \/ o[1] \in moved \/ o[1] \in who
      BY <1>1, <1>3, <1>w, <2>1 DEF OwedInv
    <3>1. CASE o \in linker.owed
      BY <1>4, <3>1
    <3>2. CASE o \notin linker.owed
      <4>1. PICK e \in who : o = <<e, 0>>
        BY <2>1, <3>2
      <4>. QED  BY <4>1
    <3>. QED  BY <3>1, <3>2
  <2>. QED  BY <1>2, <2>2, <2>3, <2>4 DEF NutsInv
<1>. QED  BY <1>5, <1>6

\* A country's own region is of level 0.
LEMMA CountryLevel ==
  ASSUME LinkableInv, NEW a \in linker.linkable
  PROVE  Level(CountryRegion(a)) = 0
<1>1. \E c \in withCountry : Level(c) = 0 /\ CountryOf(c) = a
  BY DEF LinkableInv
<1>. QED  BY <1>1 DEF CountryRegion

\* A label is through when nobody of it is left without a region.
LEMMA ReadCountriesKeeps == ASSUME NutsInv, ReadCountries PROVE NutsInv'
<1>0. /\ RegionsInv /\ LinkerShape /\ LinkableInv /\ PostalInv /\ LocatedInv /\ OwedInv
  BY DEF NutsInv
<1>left. PICK left : left = {e \in Unlinked(Head(linker.labels)) :
                               address[e].country \in linker.linkable}
  OBVIOUS
<1>1. /\ linker.pc = "country" /\ linker.rows = {}
      /\ UNCHANGED <<nutsNodes, withCountry, nutsPartOf, nutsSync, address, moved, located,
                     postalRows>>
  BY <1>0 DEF ReadCountries, regionVars, placeVars, postalVars, LinkerShape
<1>2. RegionsInv' /\ PostalInv' /\ LocatedInv'
  BY <1>0, <1>1 DEF RegionsInv, PostalInv, LocatedInv
<1>3. \A x : In3(x)' = In3(x) /\ InAny(x)' = InAny(x) /\ Known(x)' = Known(x)
  BY <1>1 DEF In3, InAny, Known
<1>4. CASE left = {}
  <2>1. linker' = [linker EXCEPT !.pc = "list", !.labels = Tail(@)]
    BY <1>4, <1>left DEF ReadCountries
  <2>2. /\ DOMAIN linker' = {"pc", "labels", "rows", "linkable", "owed"}
        /\ linker'.pc = "list" /\ linker'.rows = {} /\ linker'.owed = linker.owed
        /\ linker'.linkable = linker.linkable
    BY <1>0, <1>1, <2>1 DEF LinkerShape
  <2>3. LinkerShape' /\ LinkableInv' /\ RowsInv' /\ EdgesInv'
    BY <1>0, <1>1, <2>2 DEF LinkerShape, LinkableInv, RowsInv, EdgesInv
  <2>4. \A x \in Known(Head(linker.labels)) :
          address[x].country \in linker.linkable => InAny(x) # {}
    BY <1>4, <1>left DEF Unlinked
  <2>5. OwedInv'
    BY <1>0, <1>1, <1>3, <2>2, <2>4 DEF OwedInv
  <2>. QED  BY <1>2, <2>3, <2>5 DEF NutsInv
<1>5. CASE left # {}
  <2>1. PICK page \in SUBSET left :
          linker' = [linker EXCEPT !.pc = "edges",
                       !.rows = {<<e, address[e].country>> : e \in page}]
    BY <1>5, <1>left DEF ReadCountries, kSubset
  <2>2. /\ DOMAIN linker' = {"pc", "labels", "rows", "linkable", "owed"}
        /\ linker'.pc = "edges" /\ linker'.rows = {<<e, address[e].country>> : e \in page}
        /\ linker'.owed = linker.owed /\ linker'.linkable = linker.linkable
        /\ linker'.labels = linker.labels
    BY <1>0, <2>1 DEF LinkerShape
  <2>3. EdgesInv'
    BY <1>left, <2>2 DEF EdgesInv
  <2>4. LinkerShape' /\ LinkableInv' /\ RowsInv'
    BY <1>0, <1>1, <2>2 DEF LinkerShape, LinkableInv, RowsInv
  <2>5. OwedInv'
    BY <1>0, <1>1, <1>3, <2>2 DEF OwedInv
  <2>. QED  BY <1>2, <2>3, <2>4, <2>5 DEF NutsInv
<1>. QED  BY <1>4, <1>5

LEMMA MergeCountriesKeeps == ASSUME NutsInv, MergeCountries PROVE NutsInv'
<1>0. /\ RegionsInv /\ LinkerShape /\ LinkableInv /\ PostalInv /\ EdgesInv /\ LocatedInv
      /\ OwedInv
  BY DEF NutsInv
<1>1. /\ linker.pc = "edges"
      /\ located' = located \union {<<r[1], CountryRegion(r[2])>> : r \in linker.rows}
      /\ linker' = [linker EXCEPT !.pc = "country", !.rows = {}]
      /\ UNCHANGED <<nutsNodes, withCountry, nutsPartOf, nutsSync, address, moved, postalRows>>
  BY DEF MergeCountries, regionVars, placeVars, postalVars
<1>2. /\ DOMAIN linker' = {"pc", "labels", "rows", "linkable", "owed"}
      /\ linker'.pc = "country" /\ linker'.rows = {} /\ linker'.labels = linker.labels
      /\ linker'.owed = linker.owed /\ linker'.linkable = linker.linkable
  BY <1>0, <1>1 DEF LinkerShape
<1>3. RegionsInv' /\ PostalInv'
  BY <1>0, <1>1 DEF RegionsInv, PostalInv
<1>4. LinkerShape' /\ LinkableInv' /\ RowsInv' /\ EdgesInv'
  BY <1>0, <1>1, <1>2 DEF LinkerShape, LinkableInv, RowsInv, EdgesInv
<1>p. \A p \in located' : p = <<p[1], p[2]>>
  BY <1>0, <1>1 DEF LocatedInv
<1>5. ASSUME NEW p \in located', Level(p[2]) = 3
      PROVE  p \in located
  <2>. SUFFICES ASSUME p \notin located PROVE FALSE
    OBVIOUS
  <2>1. PICK row \in linker.rows : p = <<row[1], CountryRegion(row[2])>>
    BY <1>1
  <2>2. row[2] \in linker.linkable
    BY <1>0, <1>1 DEF EdgesInv
  <2>3. Level(p[2]) = 0
    BY <1>0, <2>1, <2>2, CountryLevel
  <2>. QED  BY <1>5, <2>3
<1>6. LocatedInv'
  BY <1>0, <1>1, <1>p, <1>5 DEF LocatedInv
<1>7. \A x : In3(x) \subseteq In3(x)' /\ InAny(x) \subseteq InAny(x)' /\ Known(x)' = Known(x)
  BY <1>1 DEF In3, InAny, Known
<1>8. OwedInv'
  <2>. SUFFICES ASSUME NEW o \in linker.owed
                PROVE  IF o[2] = 3 THEN In3(o[1])' # {}
                       ELSE \/ InAny(o[1])' # {} \/ o[1] \in moved
                            \/ /\ o[1] \in Known(Head(linker.labels))
                               /\ address[o[1]].country \in linker.linkable
    BY <1>1, <1>2, <1>7 DEF OwedInv
  <2>. QED  BY <1>0, <1>1, <1>7 DEF OwedInv
<1>. QED  BY <1>3, <1>4, <1>6, <1>8 DEF NutsInv

\* More entities are in regions, each in that of its postcode, and the second job
\* has read another page.
LEMMA LocatedGrows ==
  ASSUME NutsInv, located \subseteq located', LocatedInv', PostalInv',
         UNCHANGED <<nutsNodes, withCountry, nutsPartOf, nutsSync, address, moved, linker>>
  PROVE  NutsInv'
<1>0. RegionsInv /\ LinkerShape /\ LinkableInv /\ RowsInv /\ EdgesInv /\ OwedInv
  BY DEF NutsInv
<1>1. RegionsInv' /\ LinkerShape' /\ LinkableInv' /\ RowsInv' /\ EdgesInv'
  BY <1>0 DEF RegionsInv, LinkerShape, LinkableInv, RowsInv, EdgesInv
<1>2. \A x : In3(x) \subseteq In3(x)' /\ InAny(x) \subseteq InAny(x)' /\ Known(x)' = Known(x)
  BY DEF In3, InAny, Known
<1>3. OwedInv'
  <2>. SUFFICES ASSUME NEW o \in linker.owed
                PROVE  IF o[2] = 3
                         THEN \/ In3(o[1])' # {}
                              \/ /\ linker.pc = "postcode"
                                 /\ \E r \in linker.rows : r[1] = o[1] /\ r[2] \in nutsNodes
                         ELSE \/ InAny(o[1])' # {}
                              \/ o[1] \in moved
                              \/ /\ linker.pc \in {"country", "edges"}
                                 /\ o[1] \in Known(Head(linker.labels))
                                 /\ address[o[1]].country \in linker.linkable
    BY <1>2 DEF OwedInv
  <2>. QED  BY <1>0, <1>2 DEF OwedInv
<1>. QED  BY <1>1, <1>3 DEF NutsInv

LEMMA StartPostalKeeps == ASSUME NutsInv, StartPostal PROVE NutsInv'
<1>1. UNCHANGED <<nutsNodes, withCountry, nutsPartOf, nutsSync, address, moved, located, linker,
                  postalRows>>
  BY DEF StartPostal, regionVars, placeVars
<1>2. LocatedInv' /\ PostalInv'
  BY <1>1 DEF NutsInv, LocatedInv, PostalInv
<1>. QED  BY <1>1, <1>2, LocatedGrows

LEMMA ReadPostalPageKeeps == ASSUME NutsInv, ReadPostalPage PROVE NutsInv'
<1>1. UNCHANGED <<nutsNodes, withCountry, nutsPartOf, nutsSync, address, moved, located, linker>>
  BY DEF ReadPostalPage, regionVars, placeVars
<1>2. PICK page \in SUBSET {e \in Known("Company") : address[e].postcode # NoPostCode} :
        postalRows' = {<<e, PostalResolved(address[e])>> :
                         e \in {x \in page : PostalResolved(address[x]) # NoRegion}}
  BY DEF ReadPostalPage
<1>3. ASSUME NEW r \in postalRows'
      PROVE  /\ r = <<r[1], r[2]>> /\ r[1] \in Place
             /\ address[r[1]].postcode # NoPostCode /\ r[2] = PostalResolved(address[r[1]])
  <2>1. PICK e \in page : r = <<e, PostalResolved(address[e])>>
    BY <1>2
  <2>. QED  BY <2>1 DEF Known
<1>4. LocatedInv' /\ PostalInv'
  BY <1>1, <1>3 DEF NutsInv, LocatedInv, PostalInv
<1>. QED  BY <1>1, <1>4, LocatedGrows

LEMMA MergePostalPageKeeps == ASSUME NutsInv, MergePostalPage PROVE NutsInv'
<1>1. /\ located' = located \union {r \in postalRows : r[2] \in nutsNodes} /\ postalRows' = {}
      /\ UNCHANGED <<nutsNodes, withCountry, nutsPartOf, nutsSync, address, moved, linker>>
  BY DEF MergePostalPage, regionVars, placeVars
<1>2. PostalInv' /\ LocatedInv'
  BY <1>1 DEF NutsInv, PostalInv, LocatedInv
<1>. QED  BY <1>1, <1>2, LocatedGrows

LEMMA LinkJobDiesKeeps == ASSUME NutsInv, LinkJobDies PROVE NutsInv'
<1>0. /\ RegionsInv /\ LinkerShape /\ LinkableInv /\ RowsInv /\ PostalInv /\ EdgesInv
      /\ LocatedInv /\ OwedInv
  BY DEF NutsInv
<1>1. /\ UNCHANGED <<nutsNodes, withCountry, nutsPartOf, address, moved, located>>
      /\ \/ linker' = linker /\ nutsSync' = nutsSync /\ postalRows' = {}
         \/ linker' = linker /\ nutsSync' = {} /\ postalRows' = postalRows
         \/ linker' = LinkerIdle /\ nutsSync' = nutsSync /\ postalRows' = postalRows
  BY DEF LinkJobDies, placeVars, postalVars
<1>2. RegionsInv' /\ LocatedInv' /\ PostalInv'
  BY <1>0, <1>1 DEF RegionsInv, LocatedInv, PostalInv
<1>3. CASE linker' = linker /\ postalRows' = {} /\ nutsSync' = nutsSync
  BY <1>1, <1>2, <1>3, LocatedGrows
<1>4. CASE linker' = linker /\ postalRows' = postalRows
  BY <1>1, <1>2, <1>4, RegionsGrow
<1>5. CASE linker' = LinkerIdle
  <2>1. /\ DOMAIN linker' = {"pc", "labels", "rows", "linkable", "owed"} /\ linker'.pc = "idle"
        /\ linker'.rows = {} /\ linker'.linkable = {} /\ linker'.owed = {}
    BY <1>5 DEF LinkerIdle
  <2>. QED
    BY <1>0, <1>1, <1>2, <2>1 DEF NutsInv, LinkerShape, LinkableInv, RowsInv, EdgesInv, OwedInv
<1>. QED  BY <1>1, <1>3, <1>4, <1>5

LEMMA NutsStep == NutsInv /\ [NutsNext]_nutsVars => NutsInv'
<1>. SUFFICES ASSUME NutsInv, [NutsNext]_nutsVars PROVE NutsInv'
  OBVIOUS
<1>1. CASE UNCHANGED nutsVars
  <2>1. UNCHANGED <<nutsNodes, withCountry, nutsPartOf, nutsSync, address, moved, located, linker,
                    postalRows>>
    BY <1>1 DEF nutsVars
  <2>2. LocatedInv' /\ PostalInv'
    BY <2>1 DEF NutsInv, LocatedInv, PostalInv
  <2>. QED  BY <2>1, <2>2, LocatedGrows
<1>. QED
  BY <1>1, PlaceMovesKeeps, StartNutsSyncKeeps, SyncNutsKeeps, LoadNutsKeeps, StartLinkerKeeps,
     ReadPostcodesKeeps, MergePostcodesKeeps, ReadLinkableKeeps, ReadCountriesKeeps,
     MergeCountriesKeeps, StartPostalKeeps, ReadPostalPageKeeps, MergePostalPageKeeps,
     LinkJobDiesKeeps DEF NutsNext

\* Two regions of level 3 of an entity are those that the two jobs read.
LEMMA NutsSuffice == NutsInv => EverybodyIsSomewhere
<1>. SUFFICES ASSUME NutsInv PROVE EverybodyIsSomewhere
  OBVIOUS
<1>0. RegionsInv /\ LinkerShape /\ LocatedInv /\ OwedInv
  BY DEF NutsInv
<1>1. ASSUME linker.pc = "done", NEW o \in linker.owed, o[1] \notin moved
      PROVE  IF o[2] = 3 THEN In3(o[1]) # {} ELSE InAny(o[1]) # {}
  BY <1>0, <1>1 DEF OwedInv, LinkerShape
<1>2. ASSUME NEW e \in Place \ moved, Cardinality(In3(e)) > 1
      PROVE  PostalResolved(address[e]) \notin {NoRegion, PostcodeRegion(address[e])}
  <2>1. \A p \in In3(e) :
          /\ p = <<e, p[2]>> /\ Level(p[2]) = 3
          /\ p[2] \in {PostcodeRegion(address[e]), PostalResolved(address[e])}
    BY <1>0 DEF In3, LocatedInv
  <2>2. PICK p \in In3(e), q \in In3(e) : p # q
    <3>1. In3(e) # {}
      BY <1>2, FS_EmptySet
    <3>2. \A p : In3(e) # {p}
      BY <1>2, FS_Singleton
    <3>. QED  BY <3>1, <3>2
  <2>3. p[2] # q[2]
    BY <2>1, <2>2
  <2>4. PostalResolved(address[e]) \in {p[2], q[2]}
        /\ PostalResolved(address[e]) # PostcodeRegion(address[e])
    BY <2>1, <2>3
  <2>5. Level(NoRegion) # 3
    BY DEF Level, NoRegion
  <2>. QED  BY <2>1, <2>4, <2>5
<1>3. \A c \in withCountry : Level(c) > 0 => c \in nutsPartOf
  BY <1>0 DEF RegionsInv
<1>. QED  BY <1>1, <1>2, <1>3 DEF EverybodyIsSomewhere

\* link_entities_to_nuts.py, link_entities_to_nuts_postal.py and
\* sync_nuts_from_stats.py: a run that is through has linked all that it had to,
\* nobody who stayed is in two regions of level 3 unless the jobs read different
\* rows for the postcode, and a region that was synced is part of its parent; for
\* any entities, postcodes, regions and batches, moves and runs that die.
THEOREM EverybodyIsLocated == NutsSpec => []EverybodyIsSomewhere
BY NutsInitially, NutsStep, NutsSuffice, PTL DEF NutsSpec

----------------------------------------------------------------------------
(* GraphBridge: a row that was matched when the run began is in the graph already, *)
(* or is at or after the position where the next page starts.              *)

(* How many of the positions D come before position k.                     *)

RowRank(D, k) == Cardinality({i \in D : i < k})

LEMMA RankIsANumber ==
  ASSUME NEW n \in Nat, NEW D \in SUBSET (1..n), NEW k
  PROVE  IsFiniteSet({i \in D : i < k}) /\ RowRank(D, k) \in Nat
<1>1. IsFiniteSet(1..n) BY FS_Interval
<1>2. {i \in D : i < k} \in SUBSET (1..n) OBVIOUS
<1>3. IsFiniteSet({i \in D : i < k}) BY <1>1, <1>2, FS_Subset
<1>. QED BY <1>3, FS_CardinalityType DEF RowRank

LEMMA RankGrows ==
  ASSUME NEW n \in Nat, NEW D \in SUBSET (1..n), NEW i \in D, NEW k \in D, i < k
  PROVE  RowRank(D, i) < RowRank(D, k)
<1>. DEFINE A == {j \in D : j < i}
           B == {j \in D : j < k}
<1>1. A \in SUBSET B /\ A # B
  <2>1. i \in B /\ i \notin A OBVIOUS
  <2>2. ASSUME NEW j \in A PROVE j \in B OBVIOUS
  <2>. QED BY <2>1, <2>2
<1>2. IsFiniteSet(B) /\ RowRank(D, i) \in Nat /\ RowRank(D, k) \in Nat BY RankIsANumber
<1>3. Cardinality(A) <= Cardinality(B) /\ Cardinality(A) # Cardinality(B)
  BY <1>1, <1>2, FS_Subset
<1>. QED BY <1>2, <1>3 DEF RowRank

\* No rank below one that is taken is left out.
LEMMA RankHasNoGaps ==
  ASSUME NEW n \in Nat, NEW D \in SUBSET (1..n), NEW k \in D, NEW j \in Nat, j < RowRank(D, k)
  PROVE  \E i \in D : RowRank(D, i) = j
<1>. DEFINE Above == {i \in D : RowRank(D, i) > j}
<1>1. \A i \in D : i \in Nat /\ i \in 0..n /\ RowRank(D, i) \in Nat
  <2>1. \A i \in D : i \in Nat /\ i \in 0..n OBVIOUS
  <2>2. \A i \in D : RowRank(D, i) \in Nat BY RankIsANumber
  <2>. QED BY <2>1, <2>2
<1>2. Above \subseteq Nat /\ Above # {} BY <1>1
<1>3. PICK m \in Above : \A i \in Above : m <= i BY <1>2, LeastNumber
<1>. DEFINE B == {i \in D : i < m}
<1>4. m \in D /\ m \in Nat /\ IsFiniteSet(B) /\ RowRank(D, m) = Cardinality(B)
  BY <1>1, <1>3, RankIsANumber DEF RowRank
<1>5. B # {} /\ B \subseteq 0..n
  <2>1. Cardinality(B) # 0 BY <1>1, <1>3, <1>4
  <2>2. B # {} BY <2>1, FS_EmptySet
  <2>3. B \subseteq 0..n BY <1>1
  <2>. QED BY <2>2, <2>3
<1>6. PICK p \in B : \A i \in B : p >= i BY <1>5, GreatestNumber
<1>7. B = {i \in D : i < p} \union {p}
  <2>1. ASSUME NEW i \in B PROVE i \in {x \in D : x < p} \union {p}
    BY <1>1, <1>6
  <2>2. ASSUME NEW i \in D, i < p PROVE i \in B BY <1>1, <1>4, <1>6, <2>2
  <2>. QED BY <1>6, <2>1, <2>2
<1>8. Cardinality(B) = RowRank(D, p) + 1
  <2>0. p \in Nat BY <1>1, <1>6
  <2>1. IsFiniteSet({i \in D : i < p}) /\ p \notin {i \in D : i < p}
    <3>1. IsFiniteSet({i \in D : i < p}) BY RankIsANumber
    <3>2. ~(p < p) BY <2>0
    <3>. QED BY <3>1, <3>2
  <2>2. Cardinality({i \in D : i < p} \union {p}) = Cardinality({i \in D : i < p}) + 1
    BY <2>1, FS_AddElement
  <2>. QED BY <1>7, <2>2 DEF RowRank
<1>9. p \in D /\ p < m BY <1>6
<1>10. ~(RowRank(D, p) > j) BY <1>1, <1>3, <1>4, <1>9
<1>11. RowRank(D, p) = j BY <1>1, <1>3, <1>4, <1>8, <1>9, <1>10
<1>. QED BY <1>9, <1>11

(* The inductive invariant.                                                *)

Rows(m) == {neo[m][k] : k \in DOMAIN neo[m]}

NeoIs(n) ==
  /\ n \in [BridgeClass -> Seq(BridgeRow)]
  /\ \A m \in BridgeClass : \A i, k \in DOMAIN n[m] : n[m][i] = n[m][k] => i = k

BridgeRuns(b) ==
  /\ b = [pc |-> b.pc, class |-> b.class, first |-> b.first, skip |-> b.skip, page |-> b.page,
          put |-> b.put, before |-> b.before, ever |-> b.ever, shrunk |-> b.shrunk]
  /\ b.pc \in {"idle", "fetch", "push", "over"} /\ b.skip \in Nat
  /\ b.first \in BOOLEAN /\ b.put \in BOOLEAN /\ b.shrunk \in BOOLEAN
  /\ b.page \subseteq BridgeRow
  /\ b.pc # "idle" => b.class \in BridgeClass

BridgeTypes ==
  /\ NeoIs(neo) /\ BridgeRuns(bridge)
  /\ DOMAIN virtuoso = {GraphOf(m) : m \in BridgeClass} /\ virtuoso = [g \in DOMAIN virtuoso |-> virtuoso[g]]
  /\ DOMAIN parity = BridgeClass /\ parity = [m \in BridgeClass |-> parity[m]]

\* A row needs nothing more: it renders to nothing, or was pushed, and then no
\* page of the run replaces the graph any more.
Through(r) ==
  r \in Rendered(bridge.class, {r}) =>
    ~bridge.first /\ <<bridge.class, r>> \in virtuoso[GraphOf(bridge.class)]

\* A row is still on a page from that offset on.
StillAhead(r, from) ==
  \E k \in RowsMatched(bridge.class) : neo[bridge.class][k] = r /\ Ahead(bridge.class, k) >= from

\* Unless the class shrank meanwhile, no row is passed over.
NoRowPassed ==
  bridge.pc # "idle" /\ ~bridge.shrunk =>
    \A r \in bridge.before :
      \/ Through(r)
      \/ bridge.pc = "fetch" /\ StillAhead(r, bridge.skip)
      \/ bridge.pc = "push" /\ r \in bridge.page
      \/ /\ bridge.pc = "push" /\ Cardinality(bridge.page) >= BridgePage
         /\ StillAhead(r, bridge.skip + BridgePage)

\* What a run may push, and what it has left of what was there.
RunPushes ==
  bridge.pc # "idle" =>
    /\ Rows(bridge.class) \subseteq bridge.ever /\ bridge.page \subseteq bridge.ever
    /\ bridge.put => /\ ~bridge.first
                      /\ virtuoso[GraphOf(bridge.class)] \subseteq
                           {<<bridge.class, r>> : r \in bridge.ever}

ParityHolds == \A m \in BridgeClass : \A r \in parity[m] : <<m, r>> \in virtuoso[GraphOf(m)]

BridgeInv == BridgeTypes /\ NoRowPassed /\ RunPushes /\ ParityHolds

LEMMA PositionsAre ==
  ASSUME NeoIs(neo), NEW m \in BridgeClass
  PROVE  /\ neo[m] \in Seq(BridgeRow) /\ Len(neo[m]) \in Nat /\ DOMAIN neo[m] = 1..Len(neo[m])
         /\ RowsMatched(m) \in SUBSET (1..Len(neo[m]))
         /\ \A k : Ahead(m, k) = RowRank(RowsMatched(m), k)
         /\ \A k \in RowsMatched(m) : Ahead(m, k) \in Nat
<1>1. neo[m] \in Seq(BridgeRow) /\ Len(neo[m]) \in Nat /\ DOMAIN neo[m] = 1..Len(neo[m])
  BY DEF NeoIs
<1>2. RowsMatched(m) \in SUBSET (1..Len(neo[m])) BY <1>1 DEF RowsMatched
<1>3. \A k : Ahead(m, k) = RowRank(RowsMatched(m), k) BY DEF Ahead, RowRank
<1>. QED BY <1>1, <1>2, <1>3, RankIsANumber

\* What a page is: when it is short, it has all that is from its offset on.
LEMMA ShortPageIsLast ==
  ASSUME NeoIs(neo), NEW m \in BridgeClass, NEW from \in Nat,
         NEW k \in RowsMatched(m), Ahead(m, k) >= from + BridgePage
  PROVE  LET page == BridgedRows(m, from, from + BridgePage) IN
         Cardinality(page) >= BridgePage /\ page # {}
<1>. DEFINE page == BridgedRows(m, from, from + BridgePage)
           D == RowsMatched(m)
           At(j) == CHOOSE i \in D : RowRank(D, i) = j
           f == [j \in from..(from + BridgePage - 1) |-> neo[m][At(j)]]
           n == Len(neo[m])
<1>1. /\ n \in Nat /\ D \in SUBSET (1..n) /\ RowRank(D, k) >= from + BridgePage /\ RowRank(D, k) \in Nat
      /\ BridgePage \in Nat \ {0}
  BY PositionsAre, BridgeAssumption
<1>2. ASSUME NEW j \in from..(from + BridgePage - 1)
      PROVE  At(j) \in D /\ RowRank(D, At(j)) = j
  <2>1. j \in Nat /\ j < RowRank(D, k) BY <1>1
  <2>2. \E i \in D : RowRank(D, i) = j BY <1>1, <2>1, RankHasNoGaps
  <2>. QED BY <2>2
<1>3. ASSUME NEW j \in from..(from + BridgePage - 1) PROVE f[j] \in page
  <2>1. At(j) \in D /\ Ahead(m, At(j)) = j BY <1>2, PositionsAre
  <2>2. j >= from /\ j < from + BridgePage BY <1>1
  <2>. HIDE DEF At
  <2>. QED BY <2>1, <2>2 DEF BridgedRows
<1>4. f \in Injection(from..(from + BridgePage - 1), page)
  <2>1. ASSUME NEW i \in from..(from + BridgePage - 1), NEW j \in from..(from + BridgePage - 1),
               f[i] = f[j]
        PROVE  i = j
    <3>1. At(i) \in DOMAIN neo[m] /\ At(j) \in DOMAIN neo[m] /\ neo[m][At(i)] = neo[m][At(j)]
      BY <1>2, <2>1 DEF RowsMatched
    <3>2. At(i) = At(j) BY <3>1 DEF NeoIs
    <3>. QED BY <1>2, <3>2
  <2>. QED BY <1>3, <2>1 DEF Injection, IsInjective
<1>5. IsFiniteSet(page) 
  <2>1. page \subseteq BridgeRow
    BY <1>1, PositionsAre DEF BridgedRows, RowsMatched
  <2>2. IsFiniteSet(BridgeRow) BY BridgeAssumption, FS_Interval DEF BridgeRow
  <2>. QED BY <2>1, <2>2, FS_Subset
<1>6. Cardinality(from..(from + BridgePage - 1)) = BridgePage
  BY <1>1, FS_Interval
<1>7. Cardinality(page) >= BridgePage
  <2>1. Cardinality(from..(from + BridgePage - 1)) <= Cardinality(page) BY <1>4, <1>5, FS_Injection
  <2>2. Cardinality(page) \in Nat BY <1>5, FS_CardinalityType
  <2>. QED BY <1>1, <1>6, <2>1, <2>2
<1>8. page # {}
  <2>1. from \in from..(from + BridgePage - 1) BY <1>1
  <2>. QED BY <1>3, <2>1
<1>. QED BY <1>7, <1>8

(* Neo4j changes.                                                          *)

Moved(k, at) == IF k < at THEN k ELSE k + 1

LEMMA Inserted ==
  ASSUME NEW S, NEW s \in Seq(S), NEW r \in S, NEW at \in 1..Len(s) + 1
  PROVE  LET t == InsertAt(s, at, r) IN
         /\ t \in Seq(S) /\ Len(t) = Len(s) + 1
         /\ \A k \in 1..Len(s) : t[Moved(k, at)] = s[k]
         /\ t[at] = r
<1>. DEFINE a == SubSeq(s, 1, at - 1)
           b == SubSeq(s, at, Len(s))
           t == a \o <<r>> \o b
<1>1. Len(s) \in Nat /\ at \in Nat /\ at >= 1 /\ at <= Len(s) + 1
      /\ \A i \in 1..Len(s) : s[i] \in S
  OBVIOUS
<1>2. a \in Seq(S) /\ Len(a) = at - 1 /\ \A i \in 1..(at - 1) : a[i] = s[i]
  <2>1. \A i \in 1..(at - 1) : s[i] \in S BY <1>1
  <2>. QED BY <1>1, <2>1, SubSeqProperties
<1>3. /\ b \in Seq(S) /\ Len(b) = Len(s) - at + 1
      /\ \A i \in 1..(Len(s) - at + 1) : b[i] = s[at + i - 1]
  <2>1. \A i \in at..Len(s) : s[i] \in S BY <1>1
  <2>. QED BY <1>1, <2>1, SubSeqProperties
<1>. HIDE DEF a, b
<1>4. /\ t \in Seq(S) /\ Len(t) = Len(s) + 1 /\ t[at] = r
      /\ \A i \in 1..(at - 1) : t[i] = a[i]
      /\ \A i \in 1..(Len(s) - at + 1) : t[at + i] = b[i]
  <2>. DEFINE c == a \o <<r>>
  <2>1. /\ c \in Seq(S) /\ Len(c) = at /\ c[at] = r /\ \A i \in 1..(at - 1) : c[i] = a[i]
    BY <1>1, <1>2, ConcatProperties
  <2>. HIDE DEF c
  <2>2. /\ c \o b \in Seq(S) /\ Len(c \o b) = Len(c) + Len(b)
        /\ \A i \in 1..Len(c) + Len(b) :
             (c \o b)[i] = IF i <= Len(c) THEN c[i] ELSE b[i - Len(c)]
    BY <1>3, <2>1, ConcatProperties
  <2>3. t = c \o b BY DEF c
  <2>4. \A i \in 1..(Len(s) - at + 1) :
          at + i \in 1..Len(c) + Len(b) /\ ~(at + i <= Len(c)) /\ at + i - Len(c) = i
    BY <1>1, <1>3, <2>1
  <2>5. at \in 1..Len(c) + Len(b) /\ at <= Len(c)
        /\ \A i \in 1..(at - 1) : i \in 1..Len(c) + Len(b) /\ i <= Len(c)
    BY <1>1, <1>3, <2>1
  <2>6. Len(t) = Len(s) + 1 BY <1>1, <1>3, <2>1, <2>2, <2>3
  <2>. HIDE DEF t
  <2>. QED BY <2>1, <2>2, <2>3, <2>4, <2>5, <2>6
<1>5. ASSUME NEW k \in 1..Len(s) PROVE t[Moved(k, at)] = s[k]
  <2>1. CASE k < at
    <3>1. k \in 1..(at - 1) BY <1>1, <2>1
    <3>. QED BY <1>2, <1>4, <2>1, <3>1 DEF Moved
  <2>2. CASE ~(k < at)
    <3>1. k - at + 1 \in 1..(Len(s) - at + 1) /\ at + (k - at + 1) = k + 1
          /\ at + (k - at + 1) - 1 = k
      BY <1>1, <2>2
    <3>. QED BY <1>3, <1>4, <2>2, <3>1 DEF Moved
  <2>. QED BY <2>1, <2>2
<1>. QED BY <1>4, <1>5 DEF InsertAt, a, b

LEMMA Removed ==
  ASSUME NEW S, NEW s \in Seq(S), NEW at \in 1..Len(s)
  PROVE  LET t == RemoveAt(s, at) IN
         /\ t \in Seq(S) /\ Len(t) = Len(s) - 1
         /\ \A k \in 1..Len(t) : t[k] = s[Moved(k, at)] /\ Moved(k, at) \in 1..Len(s)
<1>. DEFINE a == SubSeq(s, 1, at - 1)
           b == SubSeq(s, at + 1, Len(s))
           t == a \o b
<1>1. Len(s) \in Nat /\ at \in Nat /\ at >= 1 /\ at <= Len(s)
      /\ \A i \in 1..Len(s) : s[i] \in S
  OBVIOUS
<1>2. a \in Seq(S) /\ Len(a) = at - 1 /\ \A i \in 1..(at - 1) : a[i] = s[i]
  <2>1. \A i \in 1..(at - 1) : s[i] \in S BY <1>1
  <2>. QED BY <1>1, <2>1, SubSeqProperties
<1>3. /\ b \in Seq(S) /\ Len(b) = Len(s) - at
      /\ \A i \in 1..(Len(s) - at) : b[i] = s[at + i]
  <2>1. \A i \in at + 1..Len(s) : s[i] \in S BY <1>1
  <2>2. Len(s) - (at + 1) + 1 = Len(s) - at /\ \A i \in 1..(Len(s) - at) : (at + 1) + i - 1 = at + i
    BY <1>1
  <2>3. b \in Seq(S) /\ Len(b) = (IF at + 1 <= Len(s) THEN Len(s) - (at + 1) + 1 ELSE 0)
        /\ \A i \in 1..(Len(s) - (at + 1) + 1) : b[i] = s[(at + 1) + i - 1]
    BY <1>1, <2>1, SubSeqProperties
  <2>4. Len(b) = Len(s) - at
    <3>1. CASE at + 1 <= Len(s) BY <2>2, <2>3, <3>1
    <3>2. CASE ~(at + 1 <= Len(s))
      <4>1. at = Len(s) /\ Len(s) - at = 0 BY <1>1, <3>2
      <4>. QED BY <2>3, <3>2, <4>1
    <3>. QED BY <3>1, <3>2
  <2>. HIDE DEF b
  <2>. QED BY <2>2, <2>3, <2>4
<1>. HIDE DEF a, b
<1>4. /\ t \in Seq(S) /\ Len(t) = Len(s) - 1
      /\ \A i \in 1..(at - 1) : t[i] = a[i]
      /\ \A i \in 1..(Len(s) - at) : t[at - 1 + i] = b[i]
  <2>2. /\ a \o b \in Seq(S) /\ Len(a \o b) = Len(a) + Len(b)
        /\ \A i \in 1..Len(a) + Len(b) :
             (a \o b)[i] = IF i <= Len(a) THEN a[i] ELSE b[i - Len(a)]
    BY <1>2, <1>3, ConcatProperties
  <2>4. \A i \in 1..(Len(s) - at) :
          /\ at - 1 + i \in 1..Len(a) + Len(b) /\ ~(at - 1 + i <= Len(a))
          /\ at - 1 + i - Len(a) = i
    BY <1>1, <1>2, <1>3
  <2>5. \A i \in 1..(at - 1) : i \in 1..Len(a) + Len(b) /\ i <= Len(a)
    BY <1>1, <1>2, <1>3
  <2>6. Len(t) = Len(s) - 1 BY <1>1, <1>2, <1>3, <2>2
  <2>7. PICK u : u = a \o b OBVIOUS
  <2>8. \A i \in 1..(at - 1) : u[i] = a[i] BY <2>2, <2>5, <2>7
  <2>9. ASSUME NEW i \in 1..(Len(s) - at) PROVE u[at - 1 + i] = b[i]
    <3>1. PICK k : k = at - 1 + i OBVIOUS
    <3>2. k \in 1..Len(a) + Len(b) /\ ~(k <= Len(a)) /\ k - Len(a) = i BY <2>4, <3>1
    <3>3. u[k] = b[k - Len(a)] BY <2>2, <2>7, <3>2
    <3>. QED BY <3>1, <3>2, <3>3
  <2>. QED BY <2>2, <2>6, <2>7, <2>8, <2>9
<1>5. ASSUME NEW k \in 1..Len(t) PROVE t[k] = s[Moved(k, at)] /\ Moved(k, at) \in 1..Len(s)
  <2>1. CASE k < at
    <3>1. k \in 1..(at - 1) /\ k \in 1..Len(s) BY <1>1, <2>1
    <3>. QED BY <1>2, <1>4, <2>1, <3>1 DEF Moved
  <2>2. CASE ~(k < at)
    <3>0. k \in 1..(Len(s) - 1) BY <1>4
    <3>. HIDE DEF t
    <3>1. PICK j \in 1..(Len(s) - at) : at - 1 + j = k /\ at + j = k + 1
      <4>1. k - at + 1 \in 1..(Len(s) - at) /\ at - 1 + (k - at + 1) = k
            /\ at + (k - at + 1) = k + 1
        BY <1>1, <3>0, <2>2
      <4>. QED BY <4>1
    <3>2. k + 1 \in 1..Len(s) BY <1>1, <3>0
    <3>3. t[at - 1 + j] = b[j] /\ b[j] = s[at + j] BY <1>3, <1>4
    <3>. QED BY <2>2, <3>1, <3>2, <3>3 DEF Moved
  <2>. QED BY <2>1, <2>2
<1>. QED BY <1>4, <1>5 DEF RemoveAt, a, b

LEMMA ChangedIsNeo ==
  ASSUME NeoIs(neo), NEW m \in BridgeClass, NEW s \in Seq(BridgeRow),
         \A i, k \in DOMAIN s : s[i] = s[k] => i = k, neo' = [neo EXCEPT ![m] = s]
  PROVE  NeoIs(neo') /\ neo'[m] = s /\ \A x \in BridgeClass \ {m} : neo'[x] = neo[x]
<1>1. neo \in [BridgeClass -> Seq(BridgeRow)] BY DEF NeoIs
<1>2. /\ neo' \in [BridgeClass -> Seq(BridgeRow)] /\ neo'[m] = s
      /\ \A x \in BridgeClass \ {m} : neo'[x] = neo[x]
  BY <1>1
<1>3. ASSUME NEW x \in BridgeClass PROVE \A i, k \in DOMAIN neo'[x] : neo'[x][i] = neo'[x][k] => i = k
  <2>1. CASE x = m BY <1>2, <2>1
  <2>2. CASE x # m BY <1>2, <2>2 DEF NeoIs
  <2>. QED BY <2>1, <2>2
<1>. QED BY <1>2, <1>3 DEF NeoIs

LEMMA AheadGrows ==
  ASSUME NeoIs(neo), NEW m \in BridgeClass, NEW r \in BridgeRow \ Rows(m),
         NEW at \in 1..Len(neo[m]) + 1, neo' = [neo EXCEPT ![m] = InsertAt(neo[m], at, r)]
  PROVE  /\ NeoIs(neo') /\ Len(neo'[m]) = Len(neo[m]) + 1
         /\ \A k \in RowsMatched(m) :
              /\ Moved(k, at) \in RowsMatched(m)' /\ neo'[m][Moved(k, at)] = neo[m][k]
              /\ Ahead(m, Moved(k, at))' >= Ahead(m, k) /\ Ahead(m, Moved(k, at))' \in Nat
<1>. DEFINE s == neo[m]
           t == InsertAt(s, at, r)
           n == Len(s)
<1>1. s \in Seq(BridgeRow) /\ n \in Nat /\ DOMAIN s = 1..n /\ RowsMatched(m) \in SUBSET (1..n)
  BY PositionsAre
<1>2. /\ t \in Seq(BridgeRow) /\ Len(t) = n + 1 /\ t[at] = r
      /\ \A k \in 1..n : t[Moved(k, at)] = s[k]
  BY <1>1, Inserted
<1>3. DOMAIN t = 1..(n + 1) /\ at \in 1..(n + 1) /\ at \in Nat BY <1>1, <1>2
<1>. HIDE DEF t
<1>4. ASSUME NEW i \in 1..(n + 1) PROVE i = at \/ \E k \in 1..n : i = Moved(k, at)
  <2>1. CASE i < at
    <3>1. i \in 1..n /\ Moved(i, at) = i BY <1>1, <1>3, <2>1 DEF Moved
    <3>. QED BY <3>1
  <2>2. CASE i > at
    <3>1. i - 1 \in 1..n /\ Moved(i - 1, at) = i BY <1>1, <1>3, <2>2 DEF Moved
    <3>. QED BY <3>1
  <2>. QED BY <1>3, <2>1, <2>2
<1>5. \A i, k \in DOMAIN t : t[i] = t[k] => i = k
  <2>. SUFFICES ASSUME NEW i \in 1..(n + 1), NEW k \in 1..(n + 1), t[i] = t[k] PROVE i = k
    BY <1>3
  <2>1. \A x \in 1..n : s[x] # r BY <1>1 DEF Rows
  <2>2. \A x, y \in 1..n : s[x] = s[y] => x = y BY <1>1 DEF NeoIs
  <2>3. ASSUME NEW x \in 1..(n + 1), t[x] = r PROVE x = at
    <3>. SUFFICES ASSUME x # at PROVE FALSE OBVIOUS
    <3>1. PICK a \in 1..n : x = Moved(a, at) BY <1>4
    <3>. QED BY <1>2, <2>1, <2>3, <3>1
  <2>4. CASE i = at BY <1>2, <2>3, <2>4
  <2>5. CASE k = at BY <1>2, <2>3, <2>5
  <2>6. CASE i # at /\ k # at
    <3>1. PICK a \in 1..n : i = Moved(a, at) BY <1>4, <2>6
    <3>2. PICK b \in 1..n : k = Moved(b, at) BY <1>4, <2>6
    <3>3. s[a] = s[b] BY <1>2, <3>1, <3>2
    <3>. QED BY <2>2, <3>1, <3>2, <3>3
  <2>. QED BY <2>4, <2>5, <2>6
<1>6. NeoIs(neo') /\ neo'[m] = t
  BY <1>2, <1>5, ChangedIsNeo DEF t
<1>7. /\ \A k \in 1..n : Moved(k, at) \in 1..(n + 1) /\ Moved(k, at) \in Nat
      /\ \A i, k \in 1..n : i < k => Moved(i, at) < Moved(k, at)
      /\ \A i, k \in 1..n : Moved(i, at) = Moved(k, at) => i = k
  BY <1>1, <1>3 DEF Moved
<1>8. ASSUME NEW k \in RowsMatched(m)
      PROVE  Moved(k, at) \in RowsMatched(m)' /\ neo'[m][Moved(k, at)] = neo[m][k]
  <2>1. k \in 1..n BY <1>1
  <2>2. Moved(k, at) \in DOMAIN t /\ t[Moved(k, at)] = s[k] BY <1>2, <1>3, <1>7, <2>1
  <2>. QED BY <1>6, <2>2 DEF RowsMatched
<1>9. ASSUME NEW k \in RowsMatched(m) PROVE Ahead(m, Moved(k, at))' >= Ahead(m, k)
                                              /\ Ahead(m, Moved(k, at))' \in Nat
  <2>. DEFINE D == RowsMatched(m)
             E == {i \in D' : i < Moved(k, at)}
             f == [i \in {x \in D : x < k} |-> Moved(i, at)]
  <2>1. D' \in SUBSET (1..(n + 1)) BY <1>3, <1>6 DEF RowsMatched
  <2>2. IsFiniteSet(E) /\ Cardinality(E) \in Nat
    <3>1. n + 1 \in Nat BY <1>1
    <3>2. IsFiniteSet(E) /\ RowRank(D', Moved(k, at)) \in Nat BY <2>1, <3>1, RankIsANumber
    <3>. QED BY <3>2 DEF RowRank
  <2>3. k \in 1..n /\ D \subseteq 1..n BY <1>1
  <2>4. ASSUME NEW i \in {x \in D : x < k} PROVE f[i] \in E
    <3>1. i \in 1..n /\ i < k BY <1>1
    <3>2. Moved(i, at) \in D' BY <1>8
    <3>. QED BY <1>7, <2>3, <3>1, <3>2
  <2>5. f \in Injection({x \in D : x < k}, E)
    BY <1>7, <2>3, <2>4 DEF Injection, IsInjective
  <2>6. Cardinality({x \in D : x < k}) <= Cardinality(E) BY <2>2, <2>5, FS_Injection
  <2>7. Cardinality({x \in D : x < k}) \in Nat BY <1>1, RankIsANumber DEF RowRank
  <2>8. Ahead(m, Moved(k, at))' = Cardinality(E) BY DEF Ahead, Moved
  <2>. QED BY <2>2, <2>6, <2>7, <2>8 DEF Ahead
<1>. QED BY <1>2, <1>6, <1>8, <1>9

LEMMA NeoChangesKeeps ==
  ASSUME BridgeInv, NeoChanges
  PROVE  BridgeInv'
<1>1. PICK m \in BridgeClass :
        /\ \/ \E r \in BridgeRow \ ToSet(neo[m]), at \in 1..Len(neo[m]) + 1 :
               neo' = [neo EXCEPT ![m] = InsertAt(@, at, r)]
           \/ \E at \in DOMAIN neo[m] : neo' = [neo EXCEPT ![m] = RemoveAt(@, at)]
        /\ bridge' = IF bridge.class = m
                       THEN [bridge EXCEPT !.ever = @ \union ToSet(neo'[m]),
                                           !.shrunk = @ \/ Len(neo'[m]) < Len(neo[m])]
                       ELSE bridge
  BY DEF NeoChanges
<1>2. /\ UNCHANGED <<virtuoso, parity>> /\ BridgeTypes /\ NeoIs(neo) /\ BridgeRuns(bridge)
      /\ neo \in [BridgeClass -> Seq(BridgeRow)]
  BY DEF NeoChanges, BridgeInv, BridgeTypes, NeoIs
<1>3. /\ bridge'.pc = bridge.pc /\ bridge'.class = bridge.class /\ bridge'.first = bridge.first
      /\ bridge'.skip = bridge.skip /\ bridge'.page = bridge.page /\ bridge'.put = bridge.put
      /\ bridge'.before = bridge.before /\ bridge.ever \subseteq bridge'.ever
      /\ bridge.class = m => ToSet(neo'[m]) \subseteq bridge'.ever
      /\ bridge'.shrunk = (bridge.shrunk \/ (bridge.class = m /\ Len(neo'[m]) < Len(neo[m])))
      /\ BridgeRuns(bridge')
  <2>1. CASE bridge.class = m
    BY <1>1, <1>2, <2>1 DEF BridgeRuns
  <2>2. CASE bridge.class # m
    BY <1>1, <1>2, <2>2 DEF BridgeRuns
  <2>. QED BY <2>1, <2>2
<1>4. ASSUME NEW r PROVE Through(r)' <=> Through(r)
  BY <1>2, <1>3 DEF Through, Rendered
<1>5. ToSet(neo[m]) = Rows(m) /\ ToSet(neo'[m]) = {neo'[m][k] : k \in DOMAIN neo'[m]}
  BY <1>2, PositionsAre DEF ToSet, Rows
<1>6. ASSUME NEW c \in BridgeClass, RowsMatched(c)' = RowsMatched(c), neo'[c] = neo[c],
             c = bridge.class, NEW r, NEW from, StillAhead(r, from)
      PROVE  StillAhead(r, from)'
  <2>1. \A k : Ahead(c, k)' = Ahead(c, k) BY <1>6 DEF Ahead
  <2>. QED BY <1>3, <1>6, <2>1 DEF StillAhead
<1>7. ASSUME NEW c \in BridgeClass, neo'[c] = neo[c] PROVE RowsMatched(c)' = RowsMatched(c)
  BY <1>7 DEF RowsMatched
<1>. DEFINE Kept ==
      /\ NeoIs(neo') /\ \A x \in BridgeClass \ {m} : neo'[x] = neo[x]
      /\ bridge.pc # "idle" /\ ~bridge'.shrunk =>
           \A r : \A from \in Int : StillAhead(r, from) => StillAhead(r, from)'
<1>8. ASSUME NEW e \in BridgeRow \ ToSet(neo[m]), NEW at \in 1..Len(neo[m]) + 1,
             neo' = [neo EXCEPT ![m] = InsertAt(@, at, e)]
      PROVE  Kept
  <2>1. /\ NeoIs(neo') /\ Len(neo'[m]) = Len(neo[m]) + 1
        /\ \A k \in RowsMatched(m) :
             /\ Moved(k, at) \in RowsMatched(m)' /\ neo'[m][Moved(k, at)] = neo[m][k]
             /\ Ahead(m, Moved(k, at))' >= Ahead(m, k) /\ Ahead(m, Moved(k, at))' \in Nat
    BY <1>2, <1>5, <1>8, AheadGrows
  <2>2. \A x \in BridgeClass \ {m} : neo'[x] = neo[x] BY <1>2, <1>8
  <2>3. ASSUME bridge.pc # "idle", NEW r, NEW from \in Int, StillAhead(r, from)
        PROVE  StillAhead(r, from)'
    <3>1. bridge.class \in BridgeClass BY <1>2, <2>3 DEF BridgeRuns
    <3>2. CASE bridge.class = m
      <4>1. PICK k \in RowsMatched(m) : neo[m][k] = r /\ Ahead(m, k) >= from
        BY <2>3, <3>2 DEF StillAhead
      <4>2. Ahead(m, k) \in Nat BY <1>2, PositionsAre
      <4>3. Ahead(m, Moved(k, at))' >= from BY <2>1, <4>1, <4>2
      <4>. QED BY <1>3, <2>1, <3>2, <4>1, <4>3 DEF StillAhead, Moved
    <3>3. CASE bridge.class # m
      BY <1>6, <1>7, <2>2, <2>3, <3>1, <3>3
    <3>. QED BY <3>2, <3>3
  <2>. QED BY <2>1, <2>2, <2>3
<1>9. ASSUME NEW at \in DOMAIN neo[m], neo' = [neo EXCEPT ![m] = RemoveAt(@, at)]
      PROVE  Kept
  <2>. DEFINE s == neo[m]
             u == RemoveAt(s, at)
  <2>1. s \in Seq(BridgeRow) /\ Len(s) \in Nat /\ DOMAIN s = 1..Len(s) /\ at \in 1..Len(s)
    BY <1>2, PositionsAre
  <2>2. /\ u \in Seq(BridgeRow) /\ Len(u) = Len(s) - 1
        /\ \A k \in 1..Len(u) : u[k] = s[Moved(k, at)] /\ Moved(k, at) \in 1..Len(s)
    BY <2>1, Removed
  <2>3. neo' = [neo EXCEPT ![m] = u] BY <1>9
  <2>. HIDE DEF u
  <2>4. \A i, k \in DOMAIN u : u[i] = u[k] => i = k
    <3>. SUFFICES ASSUME NEW i \in 1..Len(u), NEW k \in 1..Len(u), u[i] = u[k] PROVE i = k
      BY <2>2
    <3>1. Moved(i, at) = Moved(k, at)
      <4>1. /\ Moved(i, at) \in DOMAIN s /\ Moved(k, at) \in DOMAIN s
            /\ s[Moved(i, at)] = s[Moved(k, at)]
        BY <2>1, <2>2
      <4>. QED BY <1>2, <4>1 DEF NeoIs
    <3>. QED BY <2>1, <2>2, <3>1 DEF Moved
  <2>5. NeoIs(neo') /\ neo'[m] = u /\ \A x \in BridgeClass \ {m} : neo'[x] = neo[x]
    BY <1>2, <2>2, <2>3, <2>4, ChangedIsNeo
  <2>6. ASSUME bridge.pc # "idle", ~bridge'.shrunk, NEW r, NEW from \in Int, StillAhead(r, from)
        PROVE  StillAhead(r, from)'
    <3>1. bridge.class \in BridgeClass BY <1>2, <2>6 DEF BridgeRuns
    <3>2. bridge.class # m
      <4>1. Len(neo'[m]) < Len(neo[m]) BY <2>1, <2>2, <2>5
      <4>. QED BY <1>3, <2>6, <4>1
    <3>. QED BY <1>6, <1>7, <2>5, <2>6, <3>1, <3>2
  <2>. QED BY <2>5, <2>6
<1>10. Kept
  BY <1>1, <1>8, <1>9
<1>11. BridgeTypes'
  BY <1>2, <1>3, <1>10 DEF BridgeTypes
<1>12. NoRowPassed'
  <2>. SUFFICES ASSUME bridge.pc # "idle", ~bridge'.shrunk, NEW r \in bridge.before,
                      NEW a, a = bridge.skip, NEW b, b = bridge.skip + BridgePage
      PROVE  \/ Through(r)
             \/ bridge.pc = "fetch" /\ StillAhead(r, a)'
             \/ bridge.pc = "push" /\ r \in bridge.page
             \/ /\ bridge.pc = "push" /\ Cardinality(bridge.page) >= BridgePage
                /\ StillAhead(r, b)'
    BY <1>3, <1>4 DEF NoRowPassed, StillAhead
  <2>1. a \in Int /\ b \in Int
    BY <1>2, BridgeAssumption DEF BridgeRuns
  <2>2. ~bridge.shrunk BY <1>3
  <2>3. \A from \in Int : StillAhead(r, from) => StillAhead(r, from)' BY <1>10
  <2>4. \/ Through(r)
        \/ bridge.pc = "fetch" /\ StillAhead(r, a)
        \/ bridge.pc = "push" /\ r \in bridge.page
        \/ /\ bridge.pc = "push" /\ Cardinality(bridge.page) >= BridgePage
           /\ StillAhead(r, b)
    BY <2>2 DEF BridgeInv, NoRowPassed
  <2>. QED BY <2>1, <2>3, <2>4
<1>13. RunPushes'
  <2>. SUFFICES ASSUME bridge.pc # "idle" PROVE RunPushes' BY <1>3 DEF RunPushes
  <2>1. bridge.class \in BridgeClass BY <1>2 DEF BridgeRuns
  <2>2. {neo'[bridge.class][k] : k \in DOMAIN neo'[bridge.class]} \subseteq bridge'.ever
    <3>1. CASE bridge.class = m BY <1>3, <1>5, <3>1
    <3>2. CASE bridge.class # m
      BY <1>3, <1>10, <2>1, <3>2 DEF BridgeInv, RunPushes, Rows
    <3>. QED BY <3>1, <3>2
  <2>3. Rows(bridge.class)' \subseteq bridge'.ever BY <1>3, <2>2 DEF Rows
  <2>. QED BY <1>2, <1>3, <2>3 DEF BridgeInv, RunPushes
<1>14. ParityHolds'
  BY <1>2 DEF BridgeInv, ParityHolds
<1>. QED BY <1>11, <1>12, <1>13, <1>14 DEF BridgeInv

(* The run.                                                                *)

LEMMA PushedIs ==
  ASSUME NEW b, NEW of
  PROVE  LET rows == {<<b.class, r>> : r \in Rendered(b.class, b.page)} IN
         /\ rows \subseteq Pushed(b, of)
         /\ ~b.first \/ rows = {} => Pushed(b, of) = of \union rows
         /\ b.first /\ rows # {} => Pushed(b, of) = rows
         /\ rows = {} <=> Rendered(b.class, b.page) = {}
  BY DEF Pushed, Replaces

LEMMA BridgeStarts ==
  ASSUME BridgeInv, StartBridge
  PROVE  BridgeInv'
<1>1. PICK m \in BridgeClass, append \in BOOLEAN :
        bridge' = [BridgeIdle EXCEPT !.pc = "fetch", !.class = m, !.first = ~append,
                     !.before = {neo[m][k] : k \in RowsMatched(m)}, !.ever = ToSet(neo[m])]
  BY DEF StartBridge
<1>2. bridge' = [pc |-> "fetch", class |-> m, first |-> ~append, skip |-> 0, page |-> {},
                 put |-> FALSE, before |-> {neo[m][k] : k \in RowsMatched(m)},
                 ever |-> ToSet(neo[m]), shrunk |-> FALSE]
  BY <1>1 DEF BridgeIdle
<1>3. UNCHANGED <<neo, virtuoso, parity>> /\ BridgeTypes /\ NeoIs(neo)
  BY DEF StartBridge, BridgeInv, BridgeTypes
<1>4. BridgeTypes'
  <2>1. BridgeRuns(bridge') BY <1>2 DEF BridgeRuns
  <2>. QED BY <1>3, <2>1 DEF BridgeTypes
<1>5. NoRowPassed'
  <2>1. ASSUME NEW k \in RowsMatched(m) PROVE k \in RowsMatched(m)' /\ Ahead(m, k)' >= 0
    <3>1. RowsMatched(m)' = RowsMatched(m) BY <1>3 DEF RowsMatched
    <3>2. Ahead(m, k)' = Ahead(m, k) BY <3>1 DEF Ahead
    <3>3. Ahead(m, k) \in Nat BY <1>3, PositionsAre
    <3>. QED BY <3>1, <3>2, <3>3
  <2>. QED BY <1>2, <1>3, <2>1 DEF NoRowPassed, StillAhead
<1>6. RunPushes'
  <2>1. Rows(m) = ToSet(neo[m]) BY <1>3, PositionsAre DEF Rows, ToSet
  <2>. QED BY <1>2, <1>3, <2>1 DEF RunPushes, Rows
<1>7. ParityHolds' BY <1>3 DEF BridgeInv, ParityHolds
<1>. QED BY <1>4, <1>5, <1>6, <1>7 DEF BridgeInv

LEMMA FetchBridgePageKeeps ==
  ASSUME BridgeInv, FetchBridgePage
  PROVE  BridgeInv'
<1>. DEFINE c == bridge.class
           o == bridge.skip
           page == BridgedRows(c, o, o + BridgePage)
<1>1. /\ bridge.pc = "fetch" /\ UNCHANGED <<neo, virtuoso, parity>> /\ BridgeTypes /\ NeoIs(neo)
      /\ BridgeRuns(bridge) /\ c \in BridgeClass /\ o \in Nat /\ BridgePage \in Nat \ {0}
      /\ bridge' = [bridge EXCEPT !.page = page, !.pc = IF page = {} THEN "over" ELSE "push"]
  BY BridgeAssumption DEF FetchBridgePage, BridgeInv, BridgeTypes, BridgeRuns
<1>2. page \subseteq Rows(c) /\ page \subseteq BridgeRow
  <2>1. /\ RowsMatched(c) \subseteq DOMAIN neo[c] BY DEF RowsMatched
  <2>2. page \subseteq Rows(c) BY <2>1 DEF BridgedRows, Rows
  <2>3. \A k \in DOMAIN neo[c] : neo[c][k] \in BridgeRow BY <1>1, PositionsAre
  <2>. QED BY <2>2, <2>3 DEF Rows
<1>. HIDE DEF page
<1>3. bridge' = [pc |-> IF page = {} THEN "over" ELSE "push", class |-> c, first |-> bridge.first,
                 skip |-> o, page |-> page, put |-> bridge.put, before |-> bridge.before,
                 ever |-> bridge.ever, shrunk |-> bridge.shrunk]
  BY <1>1 DEF BridgeRuns
<1>4. BridgeTypes'
  <2>1. BridgeRuns(bridge') BY <1>1, <1>2, <1>3 DEF BridgeRuns
  <2>. QED BY <1>1, <2>1 DEF BridgeTypes
<1>5. ASSUME NEW r, StillAhead(r, o)
      PROVE  \/ r \in page
             \/ Cardinality(page) >= BridgePage /\ page # {} /\ StillAhead(r, o + BridgePage)
  <2>1. PICK k \in RowsMatched(c) : neo[c][k] = r /\ Ahead(c, k) >= o
    BY <1>5 DEF StillAhead
  <2>2. Ahead(c, k) \in Nat BY <1>1, PositionsAre
  <2>3. CASE Ahead(c, k) < o + BridgePage
    BY <2>1, <2>3 DEF page, BridgedRows
  <2>4. CASE Ahead(c, k) >= o + BridgePage
    BY <1>1, <2>1, <2>4, ShortPageIsLast DEF page, StillAhead
  <2>. QED BY <1>1, <2>2, <2>3, <2>4
<1>6. NoRowPassed'
  <2>1. ASSUME NEW r, NEW from, StillAhead(r, from) PROVE StillAhead(r, from)'
    <3>1. RowsMatched(c)' = RowsMatched(c) BY <1>1, <1>3 DEF RowsMatched
    <3>2. \A k : Ahead(c, k)' = Ahead(c, k) BY <1>3, <3>1 DEF Ahead
    <3>. QED BY <1>1, <1>3, <2>1, <3>1, <3>2 DEF StillAhead
  <2>2. \A r : Through(r)' <=> Through(r) BY <1>1, <1>3 DEF Through, Rendered
  <2>. SUFFICES ASSUME ~bridge.shrunk, NEW r \in bridge.before, NEW b, b = o + BridgePage
               PROVE  \/ Through(r)
                      \/ page # {} /\ r \in page
                      \/ page # {} /\ Cardinality(page) >= BridgePage /\ StillAhead(r, b)'
    BY <1>3, <2>2 DEF NoRowPassed, StillAhead
  <2>3. Through(r) \/ StillAhead(r, o) BY <1>1 DEF BridgeInv, NoRowPassed
  <2>4. CASE StillAhead(r, o)
    <3>1. \/ r \in page
          \/ Cardinality(page) >= BridgePage /\ page # {} /\ StillAhead(r, b)
      BY <1>5, <2>4
    <3>. QED BY <2>1, <3>1
  <2>. QED BY <2>3, <2>4
<1>7. RunPushes'
  BY <1>1, <1>2, <1>3 DEF BridgeInv, RunPushes, Rows
<1>8. ParityHolds' BY <1>1 DEF BridgeInv, ParityHolds
<1>. QED BY <1>4, <1>6, <1>7, <1>8 DEF BridgeInv

\* A push, whole or the last thing of a run: what the rows of the graph are, and
\* that what is owed to earlier runs is there or was replaced.
LEMMA PushLeaves ==
  ASSUME BridgeTypes, bridge.pc = "push",
         virtuoso' = [virtuoso EXCEPT ![GraphOf(bridge.class)] = Pushed(bridge, @)]
  PROVE  LET g == GraphOf(bridge.class) IN
         /\ g \in DOMAIN virtuoso /\ virtuoso'[g] = Pushed(bridge, virtuoso[g])
         /\ \A h \in DOMAIN virtuoso \ {g} : virtuoso'[h] = virtuoso[h]
         /\ DOMAIN virtuoso' = DOMAIN virtuoso /\ virtuoso' = [h \in DOMAIN virtuoso' |-> virtuoso'[h]]
  BY DEF BridgeTypes, BridgeRuns

LEMMA PushPageKeeps ==
  ASSUME BridgeInv, PushPage
  PROVE  BridgeInv'
<1>. DEFINE c == bridge.class
           g == GraphOf(c)
           shows == Rendered(c, bridge.page)
           rows == {<<c, r>> : r \in shows}
<1>1. /\ bridge.pc = "push" /\ UNCHANGED neo /\ BridgeTypes /\ NeoIs(neo) /\ BridgeRuns(bridge)
      /\ c \in BridgeClass /\ BridgePage \in Nat \ {0} /\ bridge.skip \in Nat
      /\ virtuoso' = [virtuoso EXCEPT ![g] = Pushed(bridge, @)]
      /\ parity' = [m \in BridgeClass |->
                      IF shows # {} /\ bridge.first /\ GraphOf(m) = g THEN {} ELSE parity[m]]
      /\ bridge' = [bridge EXCEPT
                      !.first = @ /\ ~(shows # {}), !.put = @ \/ (shows # {} /\ bridge.first),
                      !.skip = @ + BridgePage, !.page = {},
                      !.pc = IF Cardinality(bridge.page) < BridgePage THEN "over" ELSE "fetch"]
  BY BridgeAssumption DEF PushPage, BridgeInv, BridgeTypes, BridgeRuns
<1>2. bridge' = [pc |-> IF Cardinality(bridge.page) < BridgePage THEN "over" ELSE "fetch",
                 class |-> c, first |-> bridge.first /\ shows = {},
                 skip |-> bridge.skip + BridgePage, page |-> {},
                 put |-> bridge.put \/ (shows # {} /\ bridge.first), before |-> bridge.before,
                 ever |-> bridge.ever, shrunk |-> bridge.shrunk]
  BY <1>1 DEF BridgeRuns
<1>3. /\ g \in DOMAIN virtuoso /\ virtuoso'[g] = Pushed(bridge, virtuoso[g])
      /\ \A h \in DOMAIN virtuoso \ {g} : virtuoso'[h] = virtuoso[h]
      /\ DOMAIN virtuoso' = DOMAIN virtuoso /\ virtuoso' = [h \in DOMAIN virtuoso' |-> virtuoso'[h]]
  BY <1>1, PushLeaves
<1>4. /\ rows \subseteq virtuoso'[g]
      /\ ~bridge.first \/ shows = {} => virtuoso'[g] = virtuoso[g] \union rows
      /\ bridge.first /\ shows # {} => virtuoso'[g] = rows
  BY <1>3, PushedIs
<1>5. IsFiniteSet(bridge.page) /\ Cardinality(bridge.page) \in Nat
  <2>1. bridge.page \subseteq BridgeRow BY <1>1 DEF BridgeRuns
  <2>2. IsFiniteSet(BridgeRow) BY BridgeAssumption, FS_Interval DEF BridgeRow
  <2>. QED BY <2>1, <2>2, FS_Subset, FS_CardinalityType
<1>. HIDE DEF shows, rows
<1>f. /\ bridge'.pc = IF Cardinality(bridge.page) < BridgePage THEN "over" ELSE "fetch"
      /\ bridge'.class = c /\ bridge'.skip = bridge.skip + BridgePage /\ bridge'.page = {}
      /\ bridge'.before = bridge.before /\ bridge'.ever = bridge.ever
      /\ bridge'.shrunk = bridge.shrunk
  BY <1>2
<1>g. /\ bridge'.first = (bridge.first /\ shows = {})
      /\ bridge'.put = (bridge.put \/ (shows # {} /\ bridge.first))
  BY <1>2
<1>h. bridge'.first \in BOOLEAN /\ bridge'.put \in BOOLEAN /\ bridge'.shrunk \in BOOLEAN
  BY <1>1, <1>f, <1>g, Zenon DEF BridgeRuns
<1>i. bridge' = [pc |-> bridge'.pc, class |-> bridge'.class, first |-> bridge'.first,
                 skip |-> bridge'.skip, page |-> bridge'.page, put |-> bridge'.put,
                 before |-> bridge'.before, ever |-> bridge'.ever, shrunk |-> bridge'.shrunk]
  BY <1>2
<1>6. BridgeTypes'
  <2>1. BridgeRuns(bridge') BY <1>1, <1>f, <1>h, <1>i DEF BridgeRuns
  <2>. QED BY <1>1, <1>3, <2>1 DEF BridgeTypes
<1>7. ASSUME NEW r, Through(r) \/ r \in bridge.page PROVE Through(r)'
  <2>. SUFFICES ASSUME r \in Rendered(c, {r})
               PROVE  ~(bridge.first /\ shows = {}) /\ <<c, r>> \in virtuoso'[g]
    BY <1>f, <1>g DEF Through, Rendered
  <2>1. CASE r \in bridge.page
    <3>1. r \in shows /\ <<c, r>> \in rows BY <2>1 DEF Rendered, shows, rows
    <3>. QED BY <1>4, <3>1
  <2>2. CASE Through(r)
    <3>1. ~bridge.first /\ <<c, r>> \in virtuoso[g] BY <2>2 DEF Through
    <3>. QED BY <1>4, <3>1
  <2>. QED BY <1>7, <2>1, <2>2
<1>8. NoRowPassed'
  <2>1. ASSUME NEW r, NEW from, StillAhead(r, from) PROVE StillAhead(r, from)'
    <3>1. RowsMatched(c)' = RowsMatched(c) BY <1>1 DEF RowsMatched
    <3>2. \A k : Ahead(c, k)' = Ahead(c, k) BY <3>1 DEF Ahead
    <3>. QED BY <1>1, <1>f, <2>1, <3>1, <3>2 DEF StillAhead
  <2>. SUFFICES ASSUME ~bridge.shrunk, NEW r \in bridge.before, NEW b, b = bridge.skip + BridgePage
               PROVE  \/ Through(r)'
                      \/ ~(Cardinality(bridge.page) < BridgePage) /\ StillAhead(r, b)'
    BY <1>f DEF NoRowPassed, StillAhead
  <2>2. \/ Through(r)
        \/ r \in bridge.page
        \/ Cardinality(bridge.page) >= BridgePage /\ StillAhead(r, b)
    BY <1>1 DEF BridgeInv, NoRowPassed
  <2>. QED BY <1>1, <1>5, <1>7, <2>1, <2>2
<1>9. RunPushes'
  <2>1. Rows(c) \subseteq bridge.ever /\ bridge.page \subseteq bridge.ever
    BY <1>1 DEF BridgeInv, RunPushes
  <2>2. rows \subseteq {<<c, r>> : r \in bridge.ever} BY <2>1 DEF Rendered, shows, rows
  <2>3. bridge'.put => ~bridge'.first /\ virtuoso'[g] \subseteq {<<c, r>> : r \in bridge.ever}
    BY <1>1, <1>f, <1>g, <1>4, <2>2 DEF BridgeInv, RunPushes
  <2>. QED BY <1>1, <1>f, <2>1, <2>3 DEF RunPushes, Rows
<1>10. ParityHolds'
  <2>. SUFFICES ASSUME NEW m \in BridgeClass, NEW r \in parity'[m]
               PROVE  <<m, r>> \in virtuoso'[GraphOf(m)]
    BY DEF ParityHolds
  <2>1. r \in parity[m] /\ ~(shows # {} /\ bridge.first /\ GraphOf(m) = g) BY <1>1
  <2>2. <<m, r>> \in virtuoso[GraphOf(m)] /\ GraphOf(m) \in DOMAIN virtuoso
    BY <1>1, <2>1 DEF BridgeInv, ParityHolds, BridgeTypes
  <2>3. CASE GraphOf(m) = g BY <1>4, <2>1, <2>2, <2>3
  <2>4. CASE GraphOf(m) # g BY <1>3, <2>2, <2>4
  <2>. QED BY <2>3, <2>4
<1>. QED BY <1>6, <1>8, <1>9, <1>10 DEF BridgeInv

LEMMA BridgeDiesKeeps ==
  ASSUME BridgeInv, BridgeDies
  PROVE  BridgeInv'
<1>. DEFINE c == bridge.class
           g == GraphOf(c)
<1>1. PICK stored \in BOOLEAN :
        /\ stored => bridge.pc = "push"
        /\ virtuoso' = [virtuoso EXCEPT ![g] = IF stored THEN Pushed(bridge, @) ELSE @]
        /\ parity' = [m \in BridgeClass |->
                        IF virtuoso' # virtuoso /\ bridge.first /\ GraphOf(m) = g
                          THEN {} ELSE parity[m]]
  BY DEF BridgeDies
<1>2. /\ bridge' = BridgeIdle /\ UNCHANGED neo /\ BridgeTypes
  BY DEF BridgeDies, BridgeInv
<1>3. CASE ~stored
  <2>1. virtuoso' = virtuoso BY <1>1, <1>2, <1>3 DEF BridgeTypes
  <2>. QED BY <1>1, <1>2, <2>1 DEF BridgeInv, BridgeTypes, BridgeRuns, BridgeIdle, NoRowPassed,
                                  RunPushes, ParityHolds
<1>4. CASE stored
  <2>1. /\ g \in DOMAIN virtuoso /\ virtuoso'[g] = Pushed(bridge, virtuoso[g])
        /\ \A h \in DOMAIN virtuoso \ {g} : virtuoso'[h] = virtuoso[h]
        /\ DOMAIN virtuoso' = DOMAIN virtuoso /\ virtuoso' = [h \in DOMAIN virtuoso' |-> virtuoso'[h]]
    BY <1>1, <1>2, <1>4, PushLeaves
  <2>2. BridgeTypes'
    BY <1>1, <1>2, <2>1 DEF BridgeTypes, BridgeRuns, BridgeIdle
  <2>3. ParityHolds'
    <3>. SUFFICES ASSUME NEW m \in BridgeClass, NEW r \in parity'[m]
                 PROVE  <<m, r>> \in virtuoso'[GraphOf(m)]
      BY DEF ParityHolds
    <3>1. r \in parity[m] /\ ~(virtuoso' # virtuoso /\ bridge.first /\ GraphOf(m) = g) BY <1>1
    <3>2. <<m, r>> \in virtuoso[GraphOf(m)] /\ GraphOf(m) \in DOMAIN virtuoso
      BY <1>2, <3>1 DEF BridgeInv, ParityHolds, BridgeTypes
    <3>3. CASE virtuoso' = virtuoso BY <3>2, <3>3
    <3>4. CASE GraphOf(m) # g BY <2>1, <3>2, <3>4
    <3>5. CASE ~bridge.first /\ GraphOf(m) = g
      <4>1. virtuoso[g] \subseteq virtuoso'[g] BY <2>1, <3>5, PushedIs
      <4>. QED BY <3>2, <3>5, <4>1
    <3>. QED BY <3>1, <3>3, <3>4, <3>5
  <2>. QED BY <1>2, <2>2, <2>3 DEF BridgeInv, NoRowPassed, RunPushes, BridgeIdle
<1>. QED BY <1>3, <1>4

LEMMA BridgeEnds ==
  ASSUME BridgeInv, EndBridge
  PROVE  BridgeInv'
<1>. DEFINE c == bridge.class
<1>1. /\ bridge.pc = "over" /\ bridge' = BridgeIdle /\ UNCHANGED <<neo, virtuoso>> /\ BridgeTypes
      /\ c \in BridgeClass
      /\ parity' = IF bridge.shrunk THEN parity
                   ELSE [parity EXCEPT ![c] = Rendered(c, bridge.before)]
  BY DEF EndBridge, BridgeInv, BridgeTypes, BridgeRuns
<1>2. BridgeTypes' BY <1>1 DEF BridgeTypes, BridgeRuns, BridgeIdle
<1>3. ParityHolds'
  <2>. SUFFICES ASSUME NEW m \in BridgeClass, NEW r \in parity'[m]
               PROVE  <<m, r>> \in virtuoso[GraphOf(m)]
    BY <1>1 DEF ParityHolds
  <2>1. CASE r \in parity[m] BY <2>1 DEF BridgeInv, ParityHolds
  <2>2. CASE r \notin parity[m]
    <3>1. ~bridge.shrunk /\ m = c /\ r \in Rendered(c, bridge.before) BY <1>1, <2>2 DEF BridgeTypes
    <3>2. Through(r) BY <1>1, <3>1 DEF BridgeInv, NoRowPassed, Rendered
    <3>. QED BY <3>1, <3>2 DEF Through, Rendered
  <2>. QED BY <2>1, <2>2
<1>. QED BY <1>1, <1>2, <1>3 DEF BridgeInv, NoRowPassed, RunPushes, BridgeIdle

LEMMA BridgeBegins == BridgeInit => BridgeInv
<1>. SUFFICES ASSUME BridgeInit PROVE BridgeInv OBVIOUS
<1>1. PICK n \in [BridgeClass -> 0..MaxBridgeRow] : neo = [m \in BridgeClass |-> [r \in 1..n[m] |-> r]]
  BY DEF BridgeInit
<1>2. ASSUME NEW m \in BridgeClass
      PROVE  /\ neo[m] \in Seq(BridgeRow)
             /\ \A i, k \in DOMAIN neo[m] : neo[m][i] = neo[m][k] => i = k
  <2>1. neo[m] = [r \in 1..n[m] |-> r] /\ n[m] \in Nat /\ n[m] <= MaxBridgeRow /\ MaxBridgeRow \in Nat
    BY <1>1, BridgeAssumption
  <2>2. \A r \in 1..n[m] : r \in BridgeRow BY <2>1 DEF BridgeRow
  <2>3. neo[m] \in Seq(BridgeRow) BY <2>1, <2>2, IsASeq
  <2>. QED BY <2>1, <2>3
<1>3. NeoIs(neo) BY <1>1, <1>2 DEF NeoIs
<1>4. BridgeRuns(bridge) BY DEF BridgeInit, BridgeIdle, BridgeRuns
<1>. QED BY <1>3, <1>4 DEF BridgeInit, BridgeInv, BridgeTypes, NoRowPassed, RunPushes, ParityHolds,
                          BridgeIdle

LEMMA BridgeKeeps == BridgeInv /\ [BridgeNext]_bridgeVars => BridgeInv'
<1>. SUFFICES ASSUME BridgeInv, [BridgeNext]_bridgeVars PROVE BridgeInv' OBVIOUS
<1>1. CASE UNCHANGED bridgeVars
  <2>1. /\ UNCHANGED <<neo, virtuoso, bridge, parity>> /\ BridgeTypes /\ NoRowPassed /\ RunPushes
        /\ ParityHolds
    BY <1>1 DEF bridgeVars, BridgeInv
  <2>2. BridgeTypes' BY <2>1 DEF BridgeTypes
  <2>3. RunPushes' /\ ParityHolds' BY <2>1 DEF RunPushes, Rows, ParityHolds
  <2>4. NoRowPassed' BY <2>1 DEF NoRowPassed, Through, StillAhead, RowsMatched, Ahead
  <2>. QED BY <2>2, <2>3, <2>4 DEF BridgeInv
<1>2. CASE BridgeNext
  BY <1>2, NeoChangesKeeps, BridgeStarts, FetchBridgePageKeeps, PushPageKeeps, BridgeDiesKeeps,
     BridgeEnds DEF BridgeNext
<1>. QED BY <1>1, <1>2

\* migrate_neo4j_to_virtuoso.py: a class whose bridge went through has in Virtuoso
\* every row that Neo4j had of it all along, and a graph that a run replaced holds
\* nothing that Neo4j did not have while it ran, for any classes, rows and page size,
\* rows that come and go between two pages, and runs that die.
THEOREM BridgesKeepParity == BridgeSpec => []BridgeKeepsParity
<1>1. BridgeInv => BridgeKeepsParity
  BY DEF BridgeInv, ParityHolds, RunPushes, BridgeKeepsParity
<1>. QED BY <1>1, BridgeBegins, BridgeKeeps, PTL DEF BridgeSpec
=============================================================================
