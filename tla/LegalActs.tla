------------------------------- MODULE LegalActs -------------------------------
(***************************************************************************)
(* The spine of legal acts in the graph and the links of the citizens'     *)
(* initiatives to them (src/src/etl/legislative/materialize_legal_acts.py):*)
(* a sweep over the mirror's CELEX numbers, page by page, merges a node    *)
(* per act while the mirror may be loaded, then every initiative is linked *)
(* to the decision that registered it and, if it was answered, to the      *)
(* communication that answers it, found by its number or by its title.     *)
(*                                                                         *)
(* An act is a number, in the order of CELEX; a version of it stands for   *)
(* its titles and dates.  The mirror is only ever added to, so that it may *)
(* hold several, and a query returns one of them, whichever (SAMPLE).      *)
(***************************************************************************)
EXTENDS Integers, FiniteSets

CONSTANTS
  Initiative,      \* the initiatives, all ANSWERED
  MaxAct,          \* bound: acts 1..MaxAct
  Communication,   \* those that answer initiatives by their class of title
  RegistrationAct,        \* the acts that register initiatives
  ActPage,         \* acts in a page (PAGE)
  MaxActVersion,   \* bound: versions 1..MaxActVersion
  MaxSpineFaults,  \* bound: materializer runs that fail
  NoAct            \* "no act"

Act == 1..MaxAct

ASSUME SpineAssumption ==
  /\ MaxAct \in Nat /\ ActPage \in Nat \ {0} /\ MaxActVersion \in Nat \ {0}
  /\ Communication \subseteq Act /\ RegistrationAct \subseteq Act /\ NoAct \notin Act

VARIABLES
  inMirror,    \* inMirror[a]: the versions the mirror has
  inGraph,     \* inGraph[a]: the version the node shows, 0 if there is no node
  actLinks,    \* the edges <<initiative, relation, act>>
  sweep,       \* the run and its local variables
  spineFaults  \* failures so far

spineVars == <<inMirror, inGraph, actLinks, sweep, spineFaults>>

\* after: the last CELEX of the pages done; page: the acts of this one; before:
\* the mirror when the sweep began (history); todo: the edges not yet written;
\* rows: what the mirror had of their acts when they were read.
SweepIdle == [pc |-> "idle", after |-> 0, page |-> {}, before |-> [a \in Act |-> {}],
              todo |-> {}, rows |-> [a \in Act |-> {}]]

SpineInit ==
  /\ inMirror \in [Act -> {{}, {1}}]
  /\ inGraph = [a \in Act |-> 0]
  /\ actLinks = {} /\ sweep = SweepIdle /\ spineFaults = 0

\* The mirror run inserts an act, or another version of one: "identical triples
\* are naturally idempotent", and others stay.
MirrorLoads ==
  /\ \E a \in Act, v \in 1..MaxActVersion :
       inMirror' = [inMirror EXCEPT ![a] = @ \union {v}]
  /\ UNCHANGED <<inGraph, actLinks, sweep, spineFaults>>

----------------------------------------------------------------------------
(* materialize_spine                                                       *)

StartSweep ==
  /\ sweep.pc = "idle"
  /\ sweep' = [SweepIdle EXCEPT !.pc = "keys", !.before = inMirror]
  /\ UNCHANGED <<inMirror, inGraph, actLinks, spineFaults>>

\* The acts after the keyset's position.
KeysAfter(after) == {a \in Act : inMirror[a] # {} /\ a > after}

\* ORDER BY ?celex LIMIT page.
Page(after) == {a \in KeysAfter(after) : Cardinality({b \in KeysAfter(after) : b < a}) < ActPage}

ReadKeys ==
  /\ sweep.pc = "keys"
  /\ sweep' = IF Page(sweep.after) = {} THEN [sweep EXCEPT !.pc = "answers"]
              ELSE [sweep EXCEPT !.pc = "merge", !.page = Page(sweep.after)]
  /\ UNCHANGED <<inMirror, inGraph, actLinks, spineFaults>>

\* Mutant: a full page is the last one too.
LastPage_WhenFull(page) == Cardinality(page) <= ActPage

LastPage(page) == Cardinality(page) < ActPage

\* What a query over these acts may return of the versions that the mirror has.
Sampled(page) ==
  {shown \in [page -> 1..MaxActVersion] : \A a \in page : shown[a] \in inMirror[a]}

\* The details of the page, read from the mirror after its keys, merged in one
\* transaction; a page that is not full is the last.
MergePage ==
  /\ sweep.pc = "merge"
  /\ \E shown \in Sampled(sweep.page) :
       inGraph' = [a \in Act |-> IF a \in sweep.page THEN shown[a] ELSE inGraph[a]]
  /\ sweep' = [sweep EXCEPT
       !.pc = IF LastPage(sweep.page) THEN "answers" ELSE "keys",
       !.page = {},
       !.after = CHOOSE a \in sweep.page : \A b \in sweep.page : b <= a]
  /\ UNCHANGED <<inMirror, actLinks, spineFaults>>

----------------------------------------------------------------------------
(* link_petitions                                                          *)

Answer(act, tier) == [act |-> act, tier |-> tier]

OfMirror(acts) == {a \in acts : inMirror[a] # {}}

\* T0: the first of the initiative's document numbers that one act carries.
ByNumber(i, numbers) ==
  IF Cardinality(OfMirror(numbers[i])) = 1
    THEN {Answer(CHOOSE a \in OfMirror(numbers[i]) : TRUE, "number")} ELSE {}

\* T1 and T2: the only communication whose title has the initiative's title
\* as a part, or if there is none its words, and whose date agrees.
Alike(i, likes, kind) == {a \in OfMirror(Communication) : likes[i][a] = kind}

ByTitle(i, likes, dated) ==
  LET hits == IF Alike(i, likes, "part") # {} THEN Alike(i, likes, "part")
              ELSE Alike(i, likes, "words")
  IN IF Cardinality(hits) = 1 /\ hits \subseteq dated[i]
       THEN {Answer(CHOOSE a \in hits : TRUE, "title")} ELSE {}

\* "a candidate claimed by two petitions drops both".
Unclaimed(picked) ==
  [i \in DOMAIN picked |->
     {x \in picked[i] : \A j \in DOMAIN picked \ {i} : x \notin picked[j]}]

\* resolve_answers.
Resolved(numbers, likes, dated) ==
  LET left == {i \in Initiative : ByNumber(i, numbers) = {}}
      titled == Unclaimed([i \in left |-> ByTitle(i, likes, dated)])
      all(i) == IF i \in left THEN titled[i] ELSE ByNumber(i, numbers)
  IN [i \in Initiative |-> IF all(i) = {} THEN Answer(NoAct, "none")
                           ELSE CHOOSE x \in all(i) : TRUE]

\* What it may resolve to, whatever the register and the titles say.
Resolutions ==
  {Resolved(numbers, likes, dated) :
     numbers \in [Initiative -> SUBSET Communication],
     likes \in [Initiative -> [Communication -> {"no", "words", "part"}]],
     dated \in [Initiative -> SUBSET Communication]}

\* The edges wanted: the decisions that the mirror has, and the answers.
Edges(decisions, answers) ==
  {<<i, "REGISTERED_BY", decisions[i]>> :
     i \in {j \in Initiative : decisions[j] # NoAct /\ inMirror[decisions[j]] # {}}}
  \union
  {<<i, "ANSWERED_BY", answers[i].act>> : i \in {j \in Initiative : answers[j].act # NoAct}}

ResolveLinks ==
  /\ sweep.pc = "answers"
  /\ \E decisions \in [Initiative -> RegistrationAct \union {NoAct}], answers \in Resolutions :
       LET edges == Edges(decisions, answers)
           rows == [a \in Act |-> IF \E edge \in edges : edge[3] = a THEN inMirror[a] ELSE {}]
       IN sweep' = [sweep EXCEPT !.pc = "link", !.todo = edges, !.rows = rows]
  /\ UNCHANGED <<inMirror, inGraph, actLinks, spineFaults>>

\* The node is merged (its details, as read, set only if it is new), then the edge.
WriteLink ==
  /\ sweep.pc = "link"
  /\ \E edge \in sweep.todo : \E v \in sweep.rows[edge[3]] :
       /\ inGraph' = [inGraph EXCEPT ![edge[3]] = IF @ = 0 THEN v ELSE @]
       /\ actLinks' = actLinks \union {edge}
       /\ sweep' = [sweep EXCEPT !.todo = @ \ {edge}]
  /\ UNCHANGED <<inMirror, spineFaults>>

SweepEnds ==
  /\ sweep.pc = "link" /\ sweep.todo = {}
  /\ sweep' = SweepIdle
  /\ UNCHANGED <<inMirror, inGraph, actLinks, spineFaults>>

\* A query times out, or the job is killed: what was merged stays.
SweepFails ==
  /\ sweep.pc # "idle" /\ spineFaults < MaxSpineFaults
  /\ spineFaults' = spineFaults + 1
  /\ sweep' = SweepIdle
  /\ UNCHANGED <<inMirror, inGraph, actLinks>>

SpineNext ==
  \/ MirrorLoads \/ StartSweep \/ ReadKeys \/ MergePage \/ ResolveLinks
  \/ WriteLink \/ SweepEnds \/ SweepFails

SpineSpec == SpineInit /\ [][SpineNext]_spineVars

----------------------------------------------------------------------------
(* Properties                                                              *)

\* A sweep that has reached its end has merged every act the mirror had when
\* it began, though the mirror grew before and after the position of the sweep
\* while it ran; and a node only ever shows a version that the mirror has, though
\* page and details are read apart (which one is not said: of several versions
\* the query returns any, and a node may go back to an older one).
SweepIsComplete ==
  /\ \A a \in Act : inGraph[a] \in inMirror[a] \union {0}
  /\ sweep.pc \in {"answers", "link"} =>
       \A a \in Act : sweep.before[a] # {} => inGraph[a] # 0
=============================================================================
