---------------------------- MODULE WikidataRelay ---------------------------
(***************************************************************************)
(* The Wikidata relay, src/src/relay/wikidata_recentchange.py: one process *)
(* that streams the feed from a cursor kept in Postgres and folds every    *)
(* event of interest into the dirty set (wikidata.dirty_entities, one row  *)
(* per entity).  The connection is in autocommit mode: every upsert is its *)
(* own transaction, and so is every advance of the cursor.                 *)
(***************************************************************************)
EXTENDS WikidataFeed

CONSTANTS
  CheckpointBatch,  \* CHECKPOINT_BATCH: events between two cursor advances
  MaxDrops,         \* bound: connections lost
  DropKinds,        \* how they are lost: "close" (server ends the stream),
                    \* "fault" (exception, crash, SIGTERM)
  NoRow             \* "this entity has no dirty row"

Row == [ts : Nat, del : BOOLEAN]

ASSUME CheckpointBatchAssumption == CheckpointBatch \in Nat \ {0}
ASSUME MaxDropsAssumption == MaxDrops \in Nat
ASSUME DropKindsAssumption == DropKinds \subseteq {"close", "fault"}
ASSUME NoRowAssumption == NoRow \notin Row

VARIABLES
  conn,     \* "up" while a stream is being drained
  pos,      \* index in log of the next event the stream delivers
  pending,  \* counters.pending_n: events since the last checkpoint
  cursor,   \* wikidata.relay_state.last_event_ts
  drops,    \* connections lost so far
  dirty     \* wikidata.dirty_entities

relayVars == <<conn, pos, pending, cursor, drops>>

RelayTypeOK ==
  /\ conn \in {"up", "down"}
  /\ pos \in 1..Len(log) + 1
  /\ pending \in 0..CheckpointBatch
  /\ pending < pos
  /\ cursor \in Nat
  /\ drops \in 0..MaxDrops
  /\ dirty \in [Entity -> Row \union {NoRow}]

----------------------------------------------------------------------------
(* The dirty set.                                                          *)

Greatest(a, b) == IF a >= b THEN a ELSE b

\* Mutant: the conflict clause forgets last_changed_at.
Upsert_KeepsTime(e, ts, del) ==
  dirty' = [dirty EXCEPT ![e] =
              [ts |-> IF @ = NoRow THEN ts ELSE @.ts, del |-> del]]

\* mark_dirty (del = FALSE) and mark_deleted (del = TRUE): one INSERT ... ON
\* CONFLICT that keeps the newest time and takes the flag of the event.
\* edit_count, first_seen_at and last_comment_kind are left out: nothing in
\* the pipeline reads them.
Upsert(e, ts, del) ==
  dirty' = [dirty EXCEPT ![e] =
              [ts  |-> IF @ = NoRow THEN ts ELSE Greatest(@.ts, ts),
               del |-> del]]

----------------------------------------------------------------------------
(* The stream loop.                                                        *)

\* Position i is where a stream opened with since=c starts: the first event
\* not older than c, or the next event to come.
StartsAt(i, c) ==
  /\ \A j \in 1..i - 1 : log[j].ts < c
  /\ i <= Len(log) => log[i].ts >= c

\* stream_loop opens the stream at the stored cursor; the counters of
\* _drain_stream start from zero.
Connect ==
  /\ conn = "down"
  /\ conn' = "up"
  /\ \E i \in 1..Len(log) + 1 : StartsAt(i, cursor) /\ pos' = i
  /\ pending' = 0
  /\ UNCHANGED <<cursor, drops, dirty>>

\* One event out of the stream: _apply_event, then the counters.
ApplyEvent ==
  /\ conn = "up"
  /\ pending < CheckpointBatch
  /\ pos <= Len(log)
  /\ LET ev == log[pos] IN
       CASE Outcome(ev) = "deleted" -> Upsert(ev.id, ev.ts, TRUE)
         [] Outcome(ev) = "dirty"   -> Upsert(ev.id, ev.ts, FALSE)
         [] OTHER                   -> UNCHANGED dirty
  /\ pos' = pos + 1
  /\ pending' = pending + 1
  /\ UNCHANGED <<conn, cursor, drops>>

\* Mutant: resume after the last event's second, to avoid the replay.
AdvanceCursor_PastTheSecond == cursor' = log[pos - 1].ts + 1

\* advance_cursor: the cursor becomes the time of the last event applied
\* (pending_ts), and is stored in a transaction after that event's upsert.
AdvanceCursor == cursor' = log[pos - 1].ts

Checkpoint ==
  /\ conn = "up"
  /\ pending >= CheckpointBatch
  /\ AdvanceCursor
  /\ pending' = 0
  /\ UNCHANGED <<conn, pos, drops, dirty>>

\* The server closes the stream: what is pending is flushed to the cursor.
CloseStream ==
  /\ conn = "up"
  /\ pending < CheckpointBatch
  /\ "close" \in DropKinds
  /\ drops < MaxDrops
  /\ drops' = drops + 1
  /\ IF pending > 0 THEN AdvanceCursor ELSE UNCHANGED cursor
  /\ conn' = "down"
  /\ pending' = 0
  /\ UNCHANGED <<pos, dirty>>

\* A read timeout, a database error, a crash or SIGTERM: nothing is flushed,
\* and the events since the last checkpoint will be delivered again.
LoseStream ==
  /\ conn = "up"
  /\ "fault" \in DropKinds
  /\ drops < MaxDrops
  /\ drops' = drops + 1
  /\ conn' = "down"
  /\ pending' = 0
  /\ UNCHANGED <<pos, cursor, dirty>>

RelayInit ==
  /\ conn = "down"
  /\ pos = 1
  /\ pending = 0
  /\ cursor = 0
  /\ drops = 0
  /\ dirty = [e \in Entity |-> NoRow]

RelayStep == Connect \/ ApplyEvent \/ Checkpoint
RelayNext == RelayStep \/ CloseStream \/ LoseStream
=============================================================================
