---------------------------- MODULE WikidataFeed ----------------------------
(***************************************************************************)
(* Wikidata as this repository sees it: an append-only feed of             *)
(* recent-change events, each stamped to the second, and the current       *)
(* content of every entity.  The relay filters the feed with classify      *)
(* (src/src/relay/event_filter.py), which is translated here; Wikidata     *)
(* itself is external and modelled from how the relay and the consumer use *)
(* it.                                                                     *)
(***************************************************************************)
EXTENDS Integers, Sequences, FiniteSets

CONSTANTS
  Entity,           \* entity ids (Q42, P31, ...)
  Kinds,            \* the kinds of event Wikidata emits in this instance
  MaxEvents,        \* bound: length of the feed
  DistinctSeconds,  \* TRUE: no two events of one entity share a second
  Chunks            \* Chunks[r]: UPDATEs needed to write revision r to Virtuoso

\* "log_other" and "categorize" touch no entity content, "sitelink" and
\* "label_other" (a non-EU language) touch content that is never stored,
\* "label_unparsed" is a label edit whose comment names no language,
\* "statement" stands for every edit no rule recognises, and "other_page"
\* for an edit of a page whose title is no entity id.
EventKind == {"log_delete", "log_restore", "log_other", "categorize",
              "sitelink", "label_eu", "label_other", "label_unparsed",
              "statement", "other_page"}

ASSUME KindsAssumption == Kinds \subseteq EventKind
ASSUME MaxEventsAssumption == MaxEvents \in Nat
ASSUME DistinctSecondsAssumption == DistinctSeconds \in BOOLEAN
ASSUME ChunksAssumption == Chunks \in [0..MaxEvents -> Nat]

VARIABLES
  log,   \* the feed: events in the order the stream delivers them
  wiki   \* wiki[e]: the index in log of the event that made e's current
         \* stored content, 0 for the content of the bulk-loaded dump

feedVars == <<log, wiki>>

Event == [id : Entity, ts : Nat, kind : EventKind]

FeedTypeOK ==
  /\ log \in Seq(Event)
  /\ Len(log) <= MaxEvents
  /\ wiki \in [Entity -> 0..Len(log)]

----------------------------------------------------------------------------
(* classify and _apply_event: what an event means to the relay.            *)

\* The ignore list; the default verdict is "dirty" (fail-open).
IgnoredKinds == {"log_other", "categorize", "sitelink", "label_other"}

\* Mutant: a deletion is taken for an edit.
classify_DeleteIsAnEdit(kind) ==
  IF kind \in IgnoredKinds THEN "ignored" ELSE "dirty"

classify(kind) ==
  CASE kind = "log_delete"   -> "deleted"
    [] kind \in IgnoredKinds -> "ignored"
    [] OTHER                 -> "dirty"

\* An event whose title is no entity id is ignored whatever its kind says.
Outcome(ev) == IF ev.kind = "other_page" THEN "ignored" ELSE classify(ev.kind)

----------------------------------------------------------------------------
(* Wikidata.                                                               *)

Clock == IF log = <<>> THEN 0 ELSE log[Len(log)].ts

\* Kinds that change what Virtuoso should hold of the entity.
ContentKinds ==
  {"log_delete", "log_restore", "label_eu", "label_unparsed", "statement"}

Live(e) == wiki[e] = 0 \/ log[wiki[e]].kind # "log_delete"

\* The number of UPDATEs that store revision r: none for a deletion.
Parts(r) ==
  IF r > 0 /\ log[r].kind = "log_delete" THEN 0 ELSE Chunks[r]

\* Somebody edits, deletes or restores e; the feed stamps it this second or
\* the next.
Publish(e, kind) ==
  /\ Len(log) < MaxEvents
  /\ Live(e) <=> kind # "log_restore"
  /\ \E ts \in {Clock, Clock + 1} :
       /\ DistinctSeconds =>
            \A i \in DOMAIN log : log[i].id = e => log[i].ts < ts
       /\ log' = Append(log, [id |-> e, ts |-> ts, kind |-> kind])
  /\ wiki' = IF kind \in ContentKinds
               THEN [wiki EXCEPT ![e] = Len(log) + 1]
               ELSE wiki

FeedInit ==
  /\ log = <<>>
  /\ wiki = [e \in Entity |-> 0]

FeedNext == \E e \in Entity, kind \in Kinds : Publish(e, kind)
=============================================================================
