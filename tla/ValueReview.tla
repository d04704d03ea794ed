----------------------------- MODULE ValueReview -----------------------------
(***************************************************************************)
(* The review of withheld contract values, for one notice: the loader and  *)
(* the back-fill that withhold a value and queue it                        *)
(* (src/src/etl/value_review_queue.py, backfill_value_quarantine.py), the  *)
(* reviewers who decide (src/src/api/routers/value_review.py), the         *)
(* correction of scale errors (src/src/etl/correct_scale_errors.py), the   *)
(* event log they all write to and the sink that renders it, later.        *)
(***************************************************************************)
EXTENDS Integers, Sequences, SequencesExt

CONSTANTS
  Reviewer,   \* people with the queue open
  MaxEvents,  \* bound: events about the notice
  MaxLost     \* bound: inserts, batches and requests that fail

ASSUME ReviewBounds == MaxEvents \in Nat /\ MaxLost \in Nat

VARIABLES
  events,    \* the events about the notice, in the order of the log
  rendered,  \* how many of them the sink has applied
  row,       \* the notice's row in events.value_review, or its absence
  loader,    \* the loader, in the middle of its batch or not
  backfill,  \* the back-fill
  scaler,    \* the correction of scale errors
  desk,      \* desk[r]: what reviewer r is doing, and the decision
  lost,      \* failures so far
  unqueued   \* history: an insert into the queue failed

reviewVars == <<events, rendered, row, loader, backfill, scaler, desk, lost,
                unqueued>>

\* claimed: an implausible value, published before values were withheld;
\* sane: a value that passed; scaled: one divided by 1000 after the fact;
\* withheld: none; correct, bogus: a reviewer's.
Decision == {"correct", "bogus"}
Kind == {"claimed", "sane", "scaled", "withheld"} \union Decision
NoRow == "absent"
StatusOf(d) == IF d = "correct" THEN "corrected" ELSE "confirmed_bogus"
Row == {NoRow, "pending", "corrected", "confirmed_bogus"}
Away == [at |-> "away", decision |-> "none"]

Logged(k) == k \in {events[i] : i \in DOMAIN events}

\* What the graph shows: events are whole, a newer one replaces the older.
Shown == IF rendered = 0 THEN "nothing" ELSE events[rendered]

Emit(k) == Len(events) < MaxEvents /\ events' = Append(events, k)
Fail == lost < MaxLost /\ lost' = lost + 1

ReviewInit ==
  /\ events \in {<<>>, <<"claimed">>}
  /\ rendered = Len(events)
  /\ row = NoRow
  /\ loader = "idle" /\ backfill = "idle" /\ scaler = "idle"
  /\ desk = [r \in Reviewer |-> Away]
  /\ lost = 0 /\ unqueued = FALSE

Render ==
  /\ rendered < Len(events)
  /\ rendered' = rendered + 1
  /\ UNCHANGED <<events, row, loader, backfill, scaler, desk, lost, unqueued>>

\* ON CONFLICT (ted_notice_id) DO NOTHING.
Enqueued == IF row = NoRow THEN "pending" ELSE row

\* enqueue_default: committed at once, whatever becomes of the batch; a
\* failure is logged, and "moves on".
Enqueue ==
  \/ row' = Enqueued /\ UNCHANGED <<lost, unqueued>>
  \/ Fail /\ unqueued' = TRUE /\ UNCHANGED row

\* Mutant: the loader withholds without queueing.
LoaderWithholds_Unqueued ==
  /\ loader = "idle"
  /\ loader' = "batch"
  /\ UNCHANGED <<events, rendered, row, backfill, scaler, desk, lost, unqueued>>

\* _quarantine, inside the batch of the notice.
LoaderWithholds ==
  /\ loader = "idle"
  /\ Enqueue
  /\ loader' = "batch"
  /\ UNCHANGED <<events, rendered, backfill, scaler, desk>>

LoaderCommits ==
  /\ loader = "batch" /\ loader' = "idle"
  /\ Emit("withheld")
  /\ UNCHANGED <<rendered, row, backfill, scaler, desk, lost, unqueued>>

LoaderRollsBack ==
  /\ loader = "batch" /\ loader' = "idle"
  /\ Fail
  /\ UNCHANGED <<events, rendered, row, backfill, scaler, desk, unqueued>>

\* A version of the notice whose value passes.
LoaderPublishes ==
  /\ loader = "idle"
  /\ Emit("sane")
  /\ UNCHANGED <<rendered, row, loader, backfill, scaler, desk, lost, unqueued>>

\* The scan of the graph, once; then a queue row and an event, as a batch.
BackfillScans ==
  /\ backfill = "idle" /\ Shown = "claimed"
  /\ Enqueue
  /\ backfill' = "batch"
  /\ UNCHANGED <<events, rendered, loader, scaler, desk>>

BackfillCommits ==
  /\ backfill = "batch" /\ backfill' = "done"
  /\ Emit("withheld")
  /\ UNCHANGED <<rendered, row, loader, scaler, desk, lost, unqueued>>

\* _CANDIDATE_SQL: the last event that has an amount above the floor, which
\* need not be the last event.
ScalerReads ==
  /\ scaler = "idle" /\ Logged("claimed")
  /\ scaler' = "read"
  /\ UNCHANGED <<events, rendered, row, loader, backfill, desk, lost, unqueued>>

ScalerEmits ==
  /\ scaler = "read" /\ scaler' = "done"
  /\ Emit("scaled")
  /\ UNCHANGED <<rendered, row, loader, backfill, desk, lost, unqueued>>

\* decide: the status is read without a lock, ...
DeskReads(r) ==
  /\ desk[r].at = "away" /\ row = "pending"
  /\ \E d \in Decision :
       desk' = [desk EXCEPT ![r] = [at |-> "read", decision |-> d]]
  /\ UNCHANGED <<events, rendered, row, loader, backfill, scaler, lost, unqueued>>

\* ... the event is committed by itself, ...
DeskEmits(r) ==
  /\ desk[r].at = "read"
  /\ Emit(desk[r].decision)
  /\ desk' = [desk EXCEPT ![r].at = "emitted"]
  /\ UNCHANGED <<rendered, row, loader, backfill, scaler, lost, unqueued>>

\* ... and the row is updated, whatever it has become.
DeskUpdates(r) ==
  /\ desk[r].at = "emitted"
  /\ row' = StatusOf(desk[r].decision)
  /\ desk' = [desk EXCEPT ![r] = Away]
  /\ UNCHANGED <<events, rendered, loader, backfill, scaler, lost, unqueued>>

\* The request dies, before or after its event.
DeskDies(r) ==
  /\ desk[r].at # "away" /\ Fail
  /\ desk' = [desk EXCEPT ![r] = Away]
  /\ UNCHANGED <<events, rendered, row, loader, backfill, scaler, unqueued>>

ReviewNext ==
  \/ Render
  \/ LoaderWithholds \/ LoaderCommits \/ LoaderRollsBack \/ LoaderPublishes
  \/ BackfillScans \/ BackfillCommits
  \/ ScalerReads \/ ScalerEmits
  \/ \E r \in Reviewer :
       DeskReads(r) \/ DeskEmits(r) \/ DeskUpdates(r) \/ DeskDies(r)

ReviewSpec == ReviewInit /\ [][ReviewNext]_reviewVars

----------------------------------------------------------------------------
(* Properties.                                                             *)

\* A row is decided only with the decision on the log; and with a decision on
\* the log it does not wait again, however often the value is withheld, unless
\* the request that took it is between its two commits, or died there.
DecisionIsOnLog ==
  /\ \A d \in Decision : row = StatusOf(d) => Logged(d)
  /\ \A d \in Decision :
       Logged(d) /\ row = "pending" =>
         lost > 0 \/ \E r \in Reviewer : desk[r] = [at |-> "emitted", decision |-> d]

\* A value that was withheld waits for a reviewer, or had one, unless the
\* insert into the queue failed: the queue is written before the log.
WithheldIsQueued ==
  Logged("withheld") /\ ~unqueued => row # NoRow

\* The queue says what the log says, for decisions and for values withheld.
QueueMatchesLog == DecisionIsOnLog /\ WithheldIsQueued
=============================================================================
