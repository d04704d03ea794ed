-------------------------- MODULE WikidataConsumer --------------------------
(***************************************************************************)
(* The Wikidata consumer: run_batch of src/src/relay/wikidata_consumer.py  *)
(* with the fetcher and the writer it calls.  One process leases the       *)
(* oldest dirty rows without locking them, works on them in a thread pool, *)
(* and at the end of the batch deletes the rows it finished, each only if  *)
(* its last_changed_at is still the one it leased.                         *)
(***************************************************************************)
EXTENDS WikidataRelay

CONSTANTS
  BatchSize,    \* WIKIDATA_CONSUMER_BATCH
  Concurrency,  \* WIKIDATA_CONSUMER_CONCURRENCY
  MaxFaults,    \* bound: failures of the consumer and of what it calls
  Unfetchable,  \* entities for which Special:EntityData never answers 200
  NoTask        \* "the batch in progress has no task for this entity"

\* A leased row and how far its task has come: rev is the revision fetched,
\* n the UPDATEs of it that succeeded.
Task == [st : {"queued", "writing", "done", "left"},
         ts : Nat, del : BOOLEAN, rev : Nat, n : Nat]

ASSUME BatchSizeAssumption == BatchSize \in Nat \ {0}
ASSUME ConcurrencyAssumption == Concurrency \in Nat \ {0}
ASSUME MaxFaultsAssumption == MaxFaults \in Nat
ASSUME UnfetchableAssumption == Unfetchable \subseteq Entity
ASSUME NoTaskAssumption == NoTask \notin Task

VARIABLES
  batch,   \* the rows leased by the run_batch in progress
  virt,    \* Virtuoso: the triples of e are the first virt[e].n chunks of
           \* revision virt[e].rev
  faults   \* failures so far

consumerVars == <<batch, virt, faults>>

ConsumerTypeOK ==
  /\ batch \in [Entity -> Task \union {NoTask}]
  /\ \A e \in Entity : batch[e] # NoTask => batch[e].rev <= Len(log)
  /\ virt \in [Entity -> [rev : 0..Len(log), n : Nat]]
  /\ faults \in 0..MaxFaults

Leased == {e \in Entity : batch[e] # NoTask}
Pending == {e \in Entity : dirty[e] # NoRow}
Status(e, st) == batch[e] # NoTask /\ batch[e].st = st
Running == {e \in Entity : Status(e, "writing")}

Fault == faults < MaxFaults /\ faults' = faults + 1

----------------------------------------------------------------------------
\* lease_batch: ORDER BY last_changed_at LIMIT BatchSize, no locks.  A lease
\* of nothing only sleeps and is left out.
LeaseBatch ==
  /\ Leased = {}
  /\ \E S \in SUBSET Pending :
       /\ S # {}
       /\ Cardinality(S) <= BatchSize
       /\ Cardinality(S) = BatchSize \/ S = Pending
       /\ \A e \in S, f \in Pending \ S : dirty[e].ts <= dirty[f].ts
       /\ batch' = [e \in Entity |->
                      IF e \in S
                        THEN [st |-> "queued", ts |-> dirty[e].ts,
                              del |-> dirty[e].del, rev |-> 0, n |-> 0]
                        ELSE NoTask]
  /\ UNCHANGED <<virt, faults>>

\* A thread of the pool takes the task of e: process_one on a tombstoned row
\* deletes the triples, without a fetch.
Tombstone(e) ==
  /\ Status(e, "queued") /\ batch[e].del
  /\ Cardinality(Running) < Concurrency
  /\ virt' = [virt EXCEPT ![e].n = 0]
  /\ batch' = [batch EXCEPT ![e].st = "done"]
  /\ UNCHANGED faults

\* Mutant: the answer may come from a cache that holds an older revision.
Fetch_Cached(e) ==
  /\ Status(e, "queued") /\ ~batch[e].del
  /\ Cardinality(Running) < Concurrency
  /\ Live(e) /\ e \notin Unfetchable
  /\ \E r \in {0} \union {i \in 1..wiki[e] : log[i].id = e} :
       batch' = [batch EXCEPT ![e].st = "writing", ![e].rev = r]
  /\ UNCHANGED <<virt, faults>>

\* fetch_truthy answers with the current content (OK, or REDIRECT: the stub
\* of a merged entity is a revision like any other).
Fetch(e) ==
  /\ Status(e, "queued") /\ ~batch[e].del
  /\ Cardinality(Running) < Concurrency
  /\ Live(e) /\ e \notin Unfetchable
  /\ batch' = [batch EXCEPT ![e].st = "writing", ![e].rev = wiki[e]]
  /\ UNCHANGED <<virt, faults>>

\* fetch_truthy answers NOT_FOUND: the entity is gone, cannot be served, or
\* (a fault) a flaky 404 or other 4xx.  The row is left pending.
NotFound(e) ==
  /\ Status(e, "queued") /\ ~batch[e].del
  /\ Cardinality(Running) < Concurrency
  /\ IF Live(e) /\ e \notin Unfetchable THEN Fault ELSE UNCHANGED faults
  /\ batch' = [batch EXCEPT ![e].st = "left"]
  /\ UNCHANGED virt

\* What write_entity's next UPDATE makes of e: the first one deletes the old
\* triples and inserts the first chunk, the others each append one.
AfterUpdate(e) ==
  [rev |-> batch[e].rev,
   n   |-> IF batch[e].n < Parts(batch[e].rev) THEN batch[e].n + 1
                                              ELSE batch[e].n]

\* Mutant: the task counts as done after its first UPDATE.
WriteChunk_FirstIsEnough(e) ==
  /\ Status(e, "writing")
  /\ virt' = [virt EXCEPT ![e] = AfterUpdate(e)]
  /\ batch' = [batch EXCEPT ![e].n = AfterUpdate(e).n, ![e].st = "done"]
  /\ UNCHANGED faults

WriteChunk(e) ==
  /\ Status(e, "writing")
  /\ virt' = [virt EXCEPT ![e] = AfterUpdate(e)]
  /\ batch' = [batch EXCEPT
                 ![e].n  = AfterUpdate(e).n,
                 ![e].st = IF AfterUpdate(e).n = Parts(batch[e].rev)
                             THEN "done" ELSE "writing"]
  /\ UNCHANGED faults

\* A task raises: retries exhausted, or an UPDATE that failed, or one whose
\* answer was lost after Virtuoso applied it.  The row stays.
TaskFails(e) ==
  /\ Status(e, "queued") \/ Status(e, "writing")
  /\ Fault
  /\ batch' = [batch EXCEPT ![e].st = "left"]
  /\ \/ UNCHANGED virt
     \/ Status(e, "queued") /\ batch[e].del /\ virt' = [virt EXCEPT ![e].n = 0]
     \/ Status(e, "writing") /\ virt' = [virt EXCEPT ![e] = AfterUpdate(e)]

\* Mutant: delete by entity_id alone.
Cleared_AnyTime(e) == Status(e, "done") /\ dirty[e] # NoRow

\* clear_dirty_batch, once every task has ended: one transaction of DELETE
\* ... WHERE entity_id = e AND last_changed_at = the leased one.
Cleared(e) ==
  /\ Status(e, "done")
  /\ dirty[e] # NoRow
  /\ dirty[e].ts = batch[e].ts

EndBatch ==
  /\ Leased # {}
  /\ \A e \in Leased : batch[e].st \in {"done", "left"}
  /\ dirty' = [e \in Entity |-> IF Cleared(e) THEN NoRow ELSE dirty[e]]
  /\ batch' = [e \in Entity |-> NoTask]
  /\ UNCHANGED <<virt, faults>>

\* The pod is killed in the middle of a batch, or the transaction that clears
\* the rows fails: the tasks are gone, the rows and what reached Virtuoso
\* stay.
Crash ==
  /\ Leased # {}
  /\ Fault
  /\ batch' = [e \in Entity |-> NoTask]
  /\ UNCHANGED <<virt, dirty>>

ConsumerInit ==
  /\ batch = [e \in Entity |-> NoTask]
  /\ virt = [e \in Entity |-> [rev |-> 0, n |-> Chunks[0]]]
  /\ faults = 0

\* What thread of the pool may do with the task of e.
TaskStep(e) == Tombstone(e) \/ Fetch(e) \/ NotFound(e) \/ WriteChunk(e)
TaskNext(e) == TaskStep(e) \/ TaskFails(e)
=============================================================================
