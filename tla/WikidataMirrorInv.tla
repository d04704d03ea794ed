------------------------- MODULE WikidataMirrorInv --------------------------
(***************************************************************************)
(* The inductive invariant behind the safety of WikidataMirror, one named  *)
(* part per idea.  Each part says what one of the processes may rely on    *)
(* about what the others did at an earlier time.                           *)
(***************************************************************************)
EXTENDS WikidataMirror

----------------------------------------------------------------------------
(* The feed.                                                               *)

\* Events arrive in the order of their seconds.
FeedSorted ==
  \A i, j \in 1..Len(log) : i <= j => log[i].ts <= log[j].ts

\* Two events of one entity never share a second, if the instance says so.
FeedStrict ==
  DistinctSeconds =>
    \A i, j \in 1..Len(log) :
      i < j /\ log[i].id = log[j].id => log[i].ts < log[j].ts

\* The current revision of an entity is its last event that the relay does
\* not ignore: the ignore list drops nothing that matters, and what it keeps
\* always changes the content.
FeedFiltered ==
  \A e \in Entity :
    /\ wiki[e] > 0 => Concerns(wiki[e], e)
    /\ \A i \in 1..Len(log) : Concerns(i, e) => i <= wiki[e]

----------------------------------------------------------------------------
(* The relay.                                                              *)

\* The stored cursor is a second that the feed has reached, and while the
\* counters are at zero the next event is not older than it.
CursorReached ==
  /\ cursor <= Clock
  /\ conn = "down" => pending = 0
  /\ conn = "up" /\ pending = 0 /\ pos <= Len(log) => cursor <= log[pos].ts

\* The second of an existing row is that of an event of its entity, and no
\* applied event of the entity is newer than the row.
RowTimes ==
  \A e \in Entity : dirty[e] # NoRow =>
    /\ \E k \in 1..Len(log) : Concerns(k, e) /\ dirty[e].ts = log[k].ts
    /\ \A i \in 1..pos - 1 : Concerns(i, e) => log[i].ts <= dirty[e].ts

\* Events cannot be applied out of order as long as every stream is flushed
\* before it is reopened: no row is newer than the position reached.
RowsBehind ==
  "fault" \notin DropKinds =>
    \A e \in Entity : dirty[e] # NoRow =>
      dirty[e].ts <= IF pending > 0 THEN log[pos - 1].ts ELSE cursor

----------------------------------------------------------------------------
(* The consumer.                                                           *)

\* Only the end of a batch deletes rows, and it also ends the leases.
LeasedHasRow == \A e \in Entity : batch[e] # NoTask => dirty[e] # NoRow

\* How far a task has come is how far Virtuoso has come.
Progress(e) ==
  /\ batch[e].st = "queued" => batch[e].n = 0
  /\ batch[e].st = "writing" =>
       /\ ~batch[e].del
       /\ batch[e].n = 0
            \/ virt[e] = [rev |-> batch[e].rev, n |-> batch[e].n]
  /\ batch[e].st = "done" /\ batch[e].del => virt[e].n = 0
  /\ batch[e].st = "done" /\ ~batch[e].del =>
       virt[e] = [rev |-> batch[e].rev, n |-> Parts(batch[e].rev)]

TaskProgress == \A e \in Entity : batch[e] # NoTask => Progress(e)

\* Virtuoso holds a revision the entity had, and a task fetched one at least
\* as new as that and not newer than the current one.
RevisionsOrdered ==
  \A e \in Entity :
    /\ virt[e].rev <= wiki[e]
    /\ batch[e] # NoTask /\ batch[e].st \in {"writing", "done"} /\ ~batch[e].del =>
         virt[e].rev <= batch[e].rev /\ batch[e].rev <= wiki[e]

\* The leased second is that of an event of the entity, which the fetched
\* revision includes.
LeaseTimes ==
  \A e \in Entity : batch[e] # NoTask =>
    \E k \in 1..Len(log) :
      /\ Concerns(k, e)
      /\ batch[e].ts = log[k].ts
      /\ batch[e].st \in {"writing", "done"} /\ ~batch[e].del =>
           k <= batch[e].rev

----------------------------------------------------------------------------
(* Deletions: the flag of a row and its second come from one event, in the *)
(* conditions under which the pipeline loses no update.                    *)

EditsOnly == Kinds \cap {"log_delete", "log_restore"} = {}
InOrder == DistinctSeconds /\ (EditsOnly \/ "fault" \notin DropKinds)

\* The event that a row, or a lease, with this second and flag stands for.
StandsFor(k, e, ts, del) ==
  Concerns(k, e) /\ log[k].ts = ts /\ (del <=> Outcome(log[k]) = "deleted")

FlagsMatch ==
  InOrder =>
    \A e \in Entity :
      /\ dirty[e] # NoRow =>
           \E k \in 1..Len(log) : StandsFor(k, e, dirty[e].ts, dirty[e].del)
      /\ batch[e] # NoTask =>
           \E k \in 1..Len(log) : StandsFor(k, e, batch[e].ts, batch[e].del)

\* With no deletion in the feed there is none in the rows.
NoDeletions ==
  EditsOnly => \A i \in 1..Len(log) : Outcome(log[i]) # "deleted"

FeedInv == FeedSorted /\ FeedStrict /\ FeedFiltered /\ NoDeletions
RelayInv == CursorReached /\ NothingSkipped /\ RowTimes /\ RowsBehind
TaskInv ==
  LeasedHasRow /\ TaskProgress /\ HalfWrittenIsDirty /\ RevisionsOrdered /\ LeaseTimes
LossInv == FlagsMatch /\ (InOrder => NoLostUpdate)

Inv == TypeOK /\ FeedInv /\ RelayInv /\ TaskInv /\ LossInv
=============================================================================
