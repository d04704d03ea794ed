----------------------------- MODULE PurgeSubjects -----------------------------
(***************************************************************************)
(* The two purges of subjects that no event can address any more           *)
(* (src/src/etl/purge_stranded_subjects.py,                                *)
(* src/src/etl/purge_orphan_rollup_subjects.py): a run scans the graph     *)
(* page by page, keeps the subjects that are stranded, or hold nothing but *)
(* a rollup, and have a live twin, and emits a PurgeSubject for each.  The *)
(* sink applies the log in order, behind the loaders' events too.          *)
(***************************************************************************)
EXTENDS Integers, Sequences, FiniteSets

CONSTANTS
  Item,          \* what a subject and its twin describe, in the order of IRIs
  PurgePage,     \* --page-size
  MaxPurgeLog,   \* bound: events that loaders emit
  MaxPurgeRuns   \* bound: runs of the purges

ASSUME PurgeAssumption == Item \subseteq Nat /\ PurgePage \in Nat \ {0}

\* The subject that was left over: a raw IRI, or a Notice; and the live one.
Side == {"left", "live"}

\* What a subject holds: nothing, only a rollup, or facts.
Holding == {"nothing", "rollup", "facts"}

VARIABLES
  damage,    \* which of the two damages the graph has: "stranded" or "rollup"
  holds,     \* holds[<<i, side>>]
  purgeLog,  \* the events the sink has still to apply
  purge,     \* the run and its local variables
  emitted, purgeRuns

purgeVars == <<damage, holds, purgeLog, purge, emitted, purgeRuns>>

\* last: the key the next page starts after; found, all:
\* candidates and, for the stranded, every subject of the pages read.
PurgeIdle == [pc |-> "idle", orphans |-> FALSE, last |-> -1,
              found |-> {}, all |-> {}, targets |-> {}]

PurgeInit ==
  /\ damage \in {"stranded", "rollup"}
  /\ holds \in [Item \X Side -> Holding]
  /\ \A i \in Item : holds[<<i, "live">>] # "rollup"
  /\ purgeLog = <<>> /\ purge = PurgeIdle /\ emitted = 0 /\ purgeRuns = 0

\* A loader emits an upsert, which can land on the live subject alone.
EmitUpsert ==
  /\ emitted < MaxPurgeLog
  /\ emitted' = emitted + 1
  /\ \E i \in Item : purgeLog' = Append(purgeLog, [type |-> "upsert", item |-> i])
  /\ UNCHANGED <<damage, holds, purge, purgeRuns>>

\* The sink.  A purge that declares the predicates it accounts for is refused
\* when the subject holds others.
ApplyPurgeLog ==
  /\ purgeLog # <<>>
  /\ purgeLog' = Tail(purgeLog)
  /\ LET e == Head(purgeLog) IN
       holds' = CASE e.type = "upsert" -> [holds EXCEPT ![<<e.item, "live">>] = "facts"]
                  [] damage = "rollup" /\ holds[<<e.item, "left">>] = "facts" -> holds
                  [] OTHER -> [holds EXCEPT ![<<e.item, "left">>] = "nothing"]
  /\ UNCHANGED <<damage, purge, emitted, purgeRuns>>

StartPurge ==
  /\ purge.pc = "idle" /\ purgeRuns < MaxPurgeRuns
  /\ purgeRuns' = purgeRuns + 1
  /\ \E orphans \in BOOLEAN :
       purge' = [PurgeIdle EXCEPT !.pc = "scan", !.orphans = orphans]
  /\ UNCHANGED <<damage, holds, purgeLog, emitted>>

\* The rows that a page can hold: subjects of the graph, or those of them with a
\* rollup and nothing else.  Live IRIs sort before the others.
IriKey(s) == IF s[2] = "live" THEN s[1] ELSE Cardinality(Item) + s[1]
PurgeRows ==
  {s \in Item \X Side :
     /\ IriKey(s) > purge.last
     /\ IF damage = "stranded" THEN holds[s] # "nothing"
                               ELSE s[2] = "left" /\ holds[s] = "rollup"}
PurgePageOf == {s \in PurgeRows : Cardinality({t \in PurgeRows : IriKey(t) < IriKey(s)}) < PurgePage}

\* all_subjects, find_candidates: one keyset page; a short one is the last.
ScanPage ==
  /\ purge.pc = "scan"
  /\ purge' = [purge EXCEPT
       !.found = @ \union {s[1] : s \in {t \in PurgePageOf : t[2] = "left"}},
       !.all = @ \union PurgePageOf,
       !.last = IF PurgePageOf = {} THEN @
                ELSE IriKey(CHOOSE s \in PurgePageOf : \A t \in PurgePageOf : IriKey(t) <= IriKey(s)),
       !.pc = IF Cardinality(PurgePageOf) < PurgePage THEN "twins" ELSE @]
  /\ UNCHANGED <<damage, holds, purgeLog, emitted, purgeRuns>>

\* Mutant: a twin in the graph's vocabulary is as good as one in the graph.
HasTwin_Always(i) == TRUE

\* find_stranded, partition_by_twin: the live subject was among those scanned, or
\* is in the graph now.
HasTwin(i) ==
  IF damage = "stranded" THEN <<i, "live">> \in purge.all
                             ELSE holds[<<i, "live">>] # "nothing"

\* Candidates without a twin are left alone, unless --allow-orphans.
PartitionByTwin ==
  /\ purge.pc = "twins"
  /\ purge' = [purge EXCEPT !.pc = "emit",
       !.targets = {i \in purge.found : HasTwin(i) \/ purge.orphans}]
  /\ UNCHANGED <<damage, holds, purgeLog, emitted, purgeRuns>>

\* emit_purges: a batch, in a transaction.
EmitPurges ==
  /\ purge.pc = "emit" /\ purge.targets # {}
  /\ \E i \in purge.targets :
       /\ purgeLog' = Append(purgeLog,
            [type |-> "purge", item |-> i, orphans |-> purge.orphans])
       /\ purge' = [purge EXCEPT !.targets = @ \ {i}]
  /\ UNCHANGED <<damage, holds, emitted, purgeRuns>>

\* All is emitted, or the run dies between two batches.
EndPurge ==
  /\ purge.pc # "idle"
  /\ purge' = PurgeIdle
  /\ UNCHANGED <<damage, holds, purgeLog, emitted, purgeRuns>>

PurgeNext ==
  \/ EmitUpsert \/ ApplyPurgeLog \/ StartPurge \/ ScanPage \/ PartitionByTwin
  \/ EmitPurges \/ EndPurge

PurgeSpec == PurgeInit /\ [][PurgeNext]_purgeVars

----------------------------------------------------------------------------
(* Properties                                                              *)

\* Unless the operator allows orphans, no purge takes the last copy of an item
\* away, however late it is applied, whatever the pages of the scan saw of a
\* graph that changed under it, and whichever purge ran before.
KeepsLastCopy ==
  [][\A i \in Item :
       (\A side \in Side : holds'[<<i, side>>] = "nothing")
       /\ (\E side \in Side : holds[<<i, side>>] # "nothing") => Head(purgeLog).orphans]_purgeVars
=============================================================================
