-------------------------------- MODULE Gleif --------------------------------
(***************************************************************************)
(* The two daily GLEIF feeds: src/src/etl/load_gleif.py announces the      *)
(* companies of the entity file, load_gleif_relationships.py the ownership *)
(* links of the relationship file.  They run independently; each commits   *)
(* its events in one batch, and the sink applies the log later.            *)
(***************************************************************************)
EXTENDS Integers, Sequences, SequencesExt, FiniteSets

CONSTANTS
  Lei,            \* well-formed LEIs
  EntityFile,     \* the LEIs of the entity file, with a name each
  LinkRecord,     \* [child, parent, type, status] that a file may hold
  MaxFileLinks,       \* bound: records of a relationship file
  MaxFeedRuns     \* bound: runs of the two feeds

LinkType == {"IS_DIRECTLY_CONSOLIDATED_BY", "IS_ULTIMATELY_CONSOLIDATED_BY",
             "IS_INTERNATIONAL_BRANCH_OF"}

ASSUME GleifAssumption ==
  /\ EntityFile \subseteq Lei /\ IsFiniteSet(EntityFile)
  /\ LinkRecord \subseteq [child : Lei, parent : Lei, type : LinkType,
                           status : {"ACTIVE", "INACTIVE"}]
  /\ MaxFileLinks \in Nat /\ MaxFeedRuns \in Nat

VARIABLES
  linkFile, \* what the relationship run in progress has still to read
  read,     \* the records it has yielded
  met,      \* seen_leis
  batch,    \* the events of its batch, not committed
  unsunk,   \* the log that the sink has not applied
  named,    \* the graph: the companies, and whether they have a name
  owns,     \* the graph: child, parent and consolidation_type
  promised, \* history: links that a committed run announced
  feedRuns

gleifVars == <<linkFile, read, met, batch, unsunk, named, owns, promised, feedRuns>>

Absence == [child |-> "no", parent |-> "no", type |-> "no", status |-> "no"]

CompanyEvent(l, full) == [kind |-> "UpsertCompany", lei |-> l, full |-> full, link |-> Absence]
LinkEvent(r) == [kind |-> "UpsertRelationship", lei |-> r.child, full |-> FALSE, link |-> r]

GleifInit ==
  /\ linkFile = <<>> /\ read = {} /\ met = {} /\ batch = <<>> /\ unsunk = <<>>
  /\ named = [l \in {} |-> FALSE]
  /\ owns = [e \in {} |-> "none"]
  /\ promised = {} /\ feedRuns = 0

----------------------------------------------------------------------------

\* load_gleif: one event per record, full of what the register says.
LoadEntities ==
  /\ feedRuns < MaxFeedRuns /\ feedRuns' = feedRuns + 1
  /\ unsunk' = unsunk \o SetToSeq({CompanyEvent(l, TRUE) : l \in EntityFile})
  /\ UNCHANGED <<linkFile, read, met, batch, named, owns, promised>>

\* parse_relationships.
Yielded(r) ==
  /\ r.child # r.parent /\ r.status = "ACTIVE"
  /\ r.type \in {"IS_DIRECTLY_CONSOLIDATED_BY", "IS_ULTIMATELY_CONSOLIDATED_BY"}

ReadLinks ==
  /\ batch = <<>> /\ linkFile = <<>>
  /\ feedRuns < MaxFeedRuns /\ feedRuns' = feedRuns + 1
  /\ linkFile' \in UNION {[1..n -> LinkRecord] : n \in 1..MaxFileLinks}
  /\ read' = {} /\ met' = {}
  /\ UNCHANGED <<batch, unsunk, named, owns, promised>>

\* An end of a link that the run has not met.
Ensured(l) == IF l \in met THEN <<>> ELSE <<CompanyEvent(l, FALSE)>>

\* Mutant: only the child is resolved or created.
Endpoints_ChildOnly(r) == Ensured(r.child)

\* Both ends of a link.
Endpoints(r) == Ensured(r.child) \o Ensured(r.parent)

\* emit_relationships: the next record.
EmitLink ==
  /\ linkFile # <<>>
  /\ LET r == Head(linkFile) IN
       IF Yielded(r)
         THEN /\ batch' = batch \o Endpoints(r) \o <<LinkEvent(r)>>
              /\ met' = met \union {r.child, r.parent}
              /\ read' = read \union {r}
         ELSE UNCHANGED <<batch, met, read>>
  /\ linkFile' = Tail(linkFile)
  /\ UNCHANGED <<unsunk, named, owns, promised, feedRuns>>

CommitLinks ==
  /\ linkFile = <<>> /\ batch # <<>>
  /\ unsunk' = unsunk \o batch /\ batch' = <<>>
  /\ promised' = promised \union read
  /\ UNCHANGED <<linkFile, read, met, named, owns, feedRuns>>

\* The download or the run fails: the batch is rolled back.
LinksFail ==
  /\ linkFile # <<>> \/ batch # <<>>
  /\ linkFile' = <<>> /\ batch' = <<>>
  /\ UNCHANGED <<read, met, unsunk, named, owns, promised, feedRuns>>

\* The sink MERGEs: what an event leaves out stays.
Merged(l, full) == full \/ (l \in DOMAIN named /\ named[l])

\* The sink: a link with an end that is not there is dropped in silence.
SinkGleif ==
  /\ unsunk # <<>>
  /\ LET e == Head(unsunk) IN
       IF e.kind = "UpsertCompany"
         THEN /\ named' = [l \in DOMAIN named \union {e.lei} |->
                             IF l = e.lei THEN Merged(l, e.full) ELSE named[l]]
              /\ UNCHANGED owns
         ELSE /\ UNCHANGED named
              /\ LET edge == <<e.link.child, e.link.parent>> IN
                   owns' = IF {edge[1], edge[2]} \subseteq DOMAIN named
                             THEN [x \in DOMAIN owns \union {edge} |->
                                     IF x = edge THEN e.link.type ELSE owns[x]]
                             ELSE owns
  /\ unsunk' = Tail(unsunk)
  /\ UNCHANGED <<linkFile, read, met, batch, promised, feedRuns>>

GleifNext ==
  LoadEntities \/ ReadLinks \/ EmitLink \/ CommitLinks \/ LinksFail \/ SinkGleif

GleifSpec == GleifInit /\ [][GleifNext]_gleifVars

----------------------------------------------------------------------------
(* Properties.                                                             *)

\* When the sink has caught up, every active link that a committed run read is
\* in the graph with both its companies, whichever feed came first and whatever
\* runs failed; no company owns itself.
LinksMaterialise ==
  unsunk = <<>> =>
    /\ {<<r.child, r.parent>> : r \in promised} = DOMAIN owns
    /\ \A x \in DOMAIN owns : x[1] # x[2] /\ {x[1], x[2]} \subseteq DOMAIN named
=============================================================================
