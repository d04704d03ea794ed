--------------------------- MODULE WikidataMirror ---------------------------
(***************************************************************************)
(* The pipeline that keeps the Wikidata graph in Virtuoso in step with     *)
(* Wikidata: the feed, the relay that turns it into dirty rows, and the    *)
(* consumer that works the rows off, interleaved step by step.  Relay and  *)
(* consumer share only the table of dirty rows.                            *)
(***************************************************************************)
EXTENDS WikidataConsumer

vars == <<log, wiki, conn, pos, pending, cursor, drops, dirty,
          batch, virt, faults>>

Init == FeedInit /\ RelayInit /\ ConsumerInit

Upstream == FeedNext /\ UNCHANGED <<relayVars, dirty, consumerVars>>
Relay == RelayNext /\ UNCHANGED <<feedVars, consumerVars>>
Work(e) == TaskNext(e) /\ UNCHANGED <<feedVars, relayVars, dirty>>
Consumer ==
  \/ LeaseBatch /\ UNCHANGED <<feedVars, relayVars, dirty>>
  \/ \E e \in Entity : Work(e)
  \/ EndBatch /\ UNCHANGED <<feedVars, relayVars>>
  \/ Crash /\ UNCHANGED <<feedVars, relayVars>>

Next == Upstream \/ Relay \/ Consumer

\* Both processes are Deployments that Kubernetes restarts, looping for ever:
\* an enabled step of the relay, of the consumer's main thread or of a pool
\* thread is eventually taken.  Nothing is assumed of Wikidata or of the
\* failures, whose number is bounded.
Fairness ==
  /\ WF_vars(RelayStep /\ UNCHANGED <<feedVars, consumerVars>>)
  /\ WF_vars((LeaseBatch /\ UNCHANGED <<feedVars, relayVars, dirty>>)
             \/ (EndBatch /\ UNCHANGED <<feedVars, relayVars>>))
  /\ \A e \in Entity :
       WF_vars(TaskStep(e) /\ UNCHANGED <<feedVars, relayVars, dirty>>)

Spec == Init /\ [][Next]_vars
FairSpec == Spec /\ Fairness

TypeOK == FeedTypeOK /\ RelayTypeOK /\ ConsumerTypeOK

----------------------------------------------------------------------------
(* Safety.                                                                 *)

\* Virtuoso holds exactly the current content of e.
InSync(e) ==
  /\ virt[e].n = Parts(wiki[e])
  /\ virt[e].n = 0 \/ virt[e].rev = wiki[e]

\* A change of e is on its way: still in the feed, or in a dirty row.
Concerns(i, e) == log[i].id = e /\ Outcome(log[i]) # "ignored"
InFeed(e) == \E i \in pos..Len(log) : Concerns(i, e)
InFlight(e) == InFeed(e) \/ dirty[e] # NoRow

\* No update is lost: when nothing about an entity is on its way any more,
\* Virtuoso holds its current content.  (The optimistic delete of the dirty
\* row, the ignore list and the resume cursor all have to be right for it.)
NoLostUpdate == \A e \in Entity : InFlight(e) \/ InSync(e)

\* An entity half-written to Virtuoso (a batch that died, a later chunk that
\* failed) still has its dirty row, so that a later batch rewrites it.
HalfWrittenIsDirty ==
  \A e \in Entity :
    virt[e].n \in 1..Parts(virt[e].rev) - 1 => dirty[e] # NoRow

\* Wherever the stream is reopened, no event is skipped: the resume position
\* of the stored cursor is never beyond the next event to apply.
NothingSkipped ==
  \A i \in 1..Len(log) + 1 : StartsAt(i, cursor) => i <= pos

\* An edit that the relay applied after the consumer read the entity keeps
\* the row: what clear_dirty promises of a concurrent edit ("If the relay
\* bumped it (concurrent edit), the WHERE clause is false and the row
\* remains").
ConcurrentEdit(e) == \E i \in batch[e].rev + 1..pos - 1 : Concerns(i, e)

ConcurrentEditKeepsRow ==
  [][\A e \in Entity :
       dirty[e] # NoRow /\ dirty'[e] = NoRow /\ ~batch[e].del
         => ~ConcurrentEdit(e)]_vars

\* An entity whose last change was an undelete is in Virtuoso again unless
\* something about it is still on its way: mark_dirty says that an undelete
\* "flips is_deleted back to false - the worker will refetch and rewrite
\* triples".
RestoredIsRewritten ==
  \A e \in Entity :
    wiki[e] > 0 /\ log[wiki[e]].kind = "log_restore" => InFlight(e) \/ InSync(e)

----------------------------------------------------------------------------
(* Liveness, and the abstract specification.                               *)

Fetchable == Entity \ Unfetchable

\* Once Wikidata is left alone, the mirror catches up: every entity that can
\* be fetched becomes and stays equal to its source, and its row goes.  One
\* entity's failure does not hold up the others (run_batch: "One entity's
\* failure must not poison the whole batch").
Converges == <>[](\A e \in Fetchable : InSync(e) /\ dirty[e] = NoRow)

R == INSTANCE Replica WITH
       Item   <- Fetchable,
       source <- [e \in Fetchable |-> wiki[e]],
       copy   <- [e \in Fetchable |->
                    [rev   |-> virt[e].rev,
                     whole |-> virt[e].n = Parts(virt[e].rev)]]

\* No reader of Virtuoso ever sees an entity go back to an older revision than
\* the one it has seen.
ReplicaSafe == R!Safe

\* While entities are only edited, the pipeline is a Replica: besides that,
\* the copy becomes the source once the source is left alone.
ReplicaSpec == R!Spec
=============================================================================
