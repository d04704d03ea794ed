----------------------------- MODULE GraphRepairs ------------------------------
(***************************************************************************)
(* Two scripts that rewrite the procurement graph in place while the graph *)
(* sink goes on writing to it: project_contracts.py turns every notice     *)
(* that is a :Contract into a :Notice of one :Contract per key, in         *)
(* batches, and dedup_companies.py merges companies of one name and        *)
(* country.  Either can die anywhere and is run again.                     *)
(***************************************************************************)
EXTENDS Naturals, FiniteSets, FiniteSetsExt

CONSTANTS
  Notice,        \* the notices
  KeyOf,         \* KeyOf[n]: its contract_key, or its own id
  Rank,          \* Rank[n]: the current notice first, then the newest
  Firm,          \* companies, by gmr_id
  HasLei,        \* those with an LEI
  Namesake,      \* <<a, b>>: same name and country
  VatNumber,     \* VAT numbers
  JunkVat,       \* those that are none: "0", or shorter than three characters
  WinnerOf,      \* WinnerOf[n]: who the notice was awarded to
  MoveBatch,     \* rows of one transaction (5000)
  MaxScriptRuns  \* bound: runs of the two scripts

ASSUME RepairsAssumption ==
  /\ MoveBatch \in Nat \ {0} /\ Firm \subseteq Nat
  /\ IsFiniteSet(Notice) /\ Rank \in [Notice -> Nat]
  /\ \A m, n \in Notice : KeyOf[m] = KeyOf[n] /\ Rank[m] = Rank[n] => m = n

VARIABLES
  label,       \* label[n]: absent, "Contract" (as the sink writes it) or "Notice"
  linked,      \* the notices with a NOTICE_OF
  entity,      \* entity[k]: absent, bare, or final (notice_count is set)
  taken,       \* taken[k]: the canonical notice of a final one (history)
  noticeEdges, \* AWARDED_TO of notices: <<n, c>>
  entityEdges, \* AWARDED_TO of contracts: <<k, c>>
  firms,       \* the companies that are nodes
  vats,        \* vats[c]: the VAT numbers of the node
  wonBy,       \* wonBy[n]: the node that the winner of n is now (history)
  forReview,     \* SAME_AS for review: <<dup, canonical>>
  migration,   \* the phase of project_contracts
  dedup,       \* the pairs that dedup_companies has left
  scriptRuns

graphRepairVars == <<label, linked, entity, taken, noticeEdges, entityEdges, firms, vats, wonBy,
                 forReview, migration, dedup, scriptRuns>>

Keys == {KeyOf[n] : n \in Notice}
companyVars == <<firms, vats, wonBy, forReview, dedup>>
contractVars == <<label, linked, entity, taken, migration>>

GraphRepairsInit ==
  /\ label = [n \in Notice |-> "absent"] /\ linked = {}
  /\ entity = [k \in Keys |-> "absent"] /\ taken = [k \in Keys |-> "none"]
  /\ noticeEdges = {} /\ entityEdges = {}
  /\ firms = Firm /\ vats \in [Firm -> {v \in SUBSET VatNumber : Cardinality(v) <= 1}]
  /\ wonBy = [n \in Notice |-> WinnerOf[n]] /\ forReview = {}
  /\ migration = "idle" /\ dedup = {} /\ scriptRuns = 0

\* The sink writes a notice, and its winner if that is no node any more.
SinkWritesNotice ==
  /\ \E n \in Notice :
       /\ label[n] = "absent"
       /\ label' = [label EXCEPT ![n] = "Contract"]
       /\ noticeEdges' = noticeEdges \union {<<n, WinnerOf[n]>>}
       /\ firms' = firms \union {WinnerOf[n]}
       /\ vats' = IF WinnerOf[n] \in firms THEN vats ELSE [vats EXCEPT ![WinnerOf[n]] = {}]
       /\ wonBy' = [wonBy EXCEPT ![n] = WinnerOf[n]]
  /\ UNCHANGED <<linked, entity, taken, entityEdges, forReview, migration, dedup, scriptRuns>>

(* project_contracts                                                       *)

\* What each phase finds: notices to relabel (never an entity, which has notices),
\* notices without a contract, contracts to finalise, and edges that notices still have.
ToRelabel == {n \in Notice : label[n] = "Contract"}
ToProject == {n \in Notice : label[n] = "Notice"} \ linked
ToFinalize == {k \in Keys : entity[k] = "bare" /\ \E n \in linked : KeyOf[n] = k}
ToStrip == {e \in noticeEdges : label[e[1]] = "Notice"}

RowsFound == CASE migration = "relabel" -> ToRelabel [] migration = "project" -> ToProject
           [] migration = "finalize" -> ToFinalize [] migration = "strip" -> ToStrip
           [] OTHER -> {}

\* Mutant: a full batch is taken for the last one.
Drained_AnyBatch(done) == done <= MoveBatch

\* _run_until_drained: a batch that is not full is the last one.
Drained(done) == done < MoveBatch

Phase(done) ==
  IF ~Drained(done) THEN migration
  ELSE CASE migration = "relabel" -> "project" [] migration = "project" -> "finalize"
         [] migration = "finalize" -> "strip" [] OTHER -> "idle"

\* One transaction on some of the rows found.
Batches == kSubset(Min({MoveBatch, Cardinality(RowsFound)}), RowsFound)

StartProjection ==
  /\ migration = "idle" /\ scriptRuns < MaxScriptRuns
  /\ scriptRuns' = scriptRuns + 1 /\ migration' = "relabel"
  /\ UNCHANGED <<label, linked, entity, taken, noticeEdges, entityEdges, companyVars>>

Relabel ==
  /\ migration = "relabel"
  /\ \E ns \in Batches :
       /\ label' = [n \in Notice |-> IF n \in ns THEN "Notice" ELSE label[n]]
       /\ migration' = Phase(Cardinality(ns))
  /\ UNCHANGED <<linked, entity, taken, noticeEdges, entityEdges, companyVars, scriptRuns>>

\* MERGE of the contract by its key, and of NOTICE_OF.
Project ==
  /\ migration = "project"
  /\ \E ns \in Batches :
       /\ linked' = linked \union ns
       /\ entity' = [k \in Keys |-> IF entity[k] = "absent" /\ \E n \in ns : KeyOf[n] = k
                                      THEN "bare" ELSE entity[k]]
       /\ migration' = Phase(Cardinality(ns))
  /\ UNCHANGED <<label, taken, noticeEdges, entityEdges, companyVars, scriptRuns>>

\* The canonical notice of a contract: the current one, else the newest.
Canonical(k) ==
  CHOOSE n \in linked : /\ KeyOf[n] = k
                        /\ \A m \in linked : KeyOf[m] = k => Rank[n] <= Rank[m]

\* The contract takes over the awards of its canonical notice.
Finalize ==
  /\ migration = "finalize"
  /\ \E ks \in Batches :
       /\ entity' = [k \in Keys |-> IF k \in ks THEN "final" ELSE entity[k]]
       /\ taken' = [k \in Keys |-> IF k \in ks THEN Canonical(k) ELSE taken[k]]
       /\ entityEdges' = entityEdges \union
            UNION {{<<k, e[2]>> : e \in {x \in noticeEdges : x[1] = Canonical(k)}} : k \in ks}
       /\ migration' = Phase(Cardinality(ks))
  /\ UNCHANGED <<label, linked, noticeEdges, companyVars, scriptRuns>>

Strip ==
  /\ migration = "strip"
  /\ \E es \in Batches :
       /\ noticeEdges' = noticeEdges \ es
       /\ migration' = Phase(Cardinality(es))
  /\ UNCHANGED <<label, linked, entity, taken, entityEdges, companyVars, scriptRuns>>

(* dedup_companies                                                         *)

Conflict(a, b) == vats'[a] # {} /\ vats'[b] # {} /\ vats'[a] # vats'[b]

\* What is junk by its length: a number, or the two numbers of a merged node.
Cleaned(c) == IF vats[c] \subseteq JunkVat \/ Cardinality(vats[c]) = 2 THEN {} ELSE vats[c]

\* Junk is cleared; the pairs are read once, with the VAT numbers of both.
FindDuplicates ==
  /\ dedup = {} /\ scriptRuns < MaxScriptRuns
  /\ scriptRuns' = scriptRuns + 1
  /\ vats' = [c \in Firm |-> Cleaned(c)]
  /\ dedup' = {[can |-> p[1], dup |-> p[2], conflict |-> Conflict(p[1], p[2])] :
                 p \in {q \in Namesake : /\ q[1] \in firms /\ q[2] \in firms /\ q[1] < q[2]
                                         /\ q[1] \in HasLei /\ q[2] \notin HasLei}}
  /\ UNCHANGED <<contractVars, noticeEdges, entityEdges, firms, wonBy, forReview>>

\* A pair in conflict is left for review, if both nodes are still there.
DeferPair ==
  /\ \E p \in dedup :
       /\ p.conflict
       /\ forReview' = IF {p.can, p.dup} \subseteq firms THEN forReview \union {<<p.dup, p.can>>}
                                                       ELSE forReview
       /\ dedup' = dedup \ {p}
  /\ UNCHANGED <<contractVars, noticeEdges, entityEdges, firms, vats, wonBy, scriptRuns>>

\* The edges of a node that becomes another one.
Rerouted(edges, from, to) == {IF e[2] = from THEN <<e[1], to>> ELSE e : e \in edges}

\* apoc.refactor.mergeNodes: properties are combined, relationships merged; a
\* node that an earlier pair took is not found any more.
MergePair ==
  /\ \E p \in dedup :
       /\ ~p.conflict /\ dedup' = dedup \ {p}
       /\ IF {p.can, p.dup} \subseteq firms
            THEN /\ firms' = firms \ {p.dup}
                 /\ vats' = [vats EXCEPT ![p.can] = @ \union vats[p.dup], ![p.dup] = {}]
                 /\ wonBy' = [n \in Notice |-> IF wonBy[n] = p.dup THEN p.can ELSE wonBy[n]]
                 /\ noticeEdges' = Rerouted(noticeEdges, p.dup, p.can)
                 /\ entityEdges' = Rerouted(entityEdges, p.dup, p.can)
                 /\ forReview' = {s \in Rerouted(forReview, p.dup, p.can) : s[1] # p.dup}
            ELSE UNCHANGED <<firms, vats, wonBy, noticeEdges, entityEdges, forReview>>
  /\ UNCHANGED <<contractVars, scriptRuns>>

\* A script dies between two of its transactions.
ScriptDies ==
  /\ migration # "idle" \/ dedup # {}
  /\ migration' = "idle" /\ dedup' = {}
  /\ UNCHANGED <<label, linked, entity, taken, noticeEdges, entityEdges, firms, vats, wonBy,
                 forReview, scriptRuns>>

GraphRepairsNext ==
  \/ SinkWritesNotice \/ StartProjection \/ Relabel \/ Project \/ Finalize \/ Strip
  \/ FindDuplicates \/ DeferPair \/ MergePair \/ ScriptDies

GraphRepairsSpec == GraphRepairsInit /\ [][GraphRepairsNext]_graphRepairVars

----------------------------------------------------------------------------
(* Properties                                                              *)

\* No award is lost on the way from a notice to its contract: it is still on the
\* notice until its contract is final, and then on the contract if the notice
\* was the canonical one, though scripts die and are run again, notices arrive
\* in between, and the company is merged into another.  (A notice that arrives
\* for a final contract loses its award to the next run.)
AwardsSurvive ==
  \A n \in Notice : label[n] # "absent" =>
    \/ <<n, wonBy[n]>> \in noticeEdges
    \/ /\ entity[KeyOf[n]] = "final"
       /\ taken[KeyOf[n]] = n => <<KeyOf[n], wonBy[n]>> \in entityEdges
=============================================================================
