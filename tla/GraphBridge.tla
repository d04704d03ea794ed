------------------------------ MODULE GraphBridge ------------------------------
(***************************************************************************)
(* scripts/migrate_neo4j_to_virtuoso.py: one class of Neo4j at a time is   *)
(* read in pages, rendered and pushed to its named graph, the first page   *)
(* by a PUT that replaces the graph, the others, and all of them with      *)
(* --append, by POST.  Neo4j goes on changing; a run can die at any push.  *)
(***************************************************************************)
EXTENDS Naturals, Sequences, FiniteSets, SequencesExt, TLC

CONSTANTS
  BridgeClass,     \* the classes that are bridged
  BridgePage,      \* bound: rows of a page (page_size, 2000 to 20000)
  MaxBridgeRow,    \* bound: rows 1..MaxBridgeRow of a class
  Blank,           \* rows of edges that lack one of their two keys
  BeforeCutoff,    \* rows published before the --since date
  MaxBridgeRuns,   \* bound: runs
  MaxNeoChanges    \* bound: rows that appear or disappear

VARIABLES
  neo,       \* of a class, the rows in the order in which Neo4j returns them
  virtuoso,  \* of a named graph, the rows <<class, row>> it describes
  bridge,    \* the run
  parity,    \* of a class, the rows that Virtuoso owes to its last whole run
  bridgeRuns, neoChanges

bridgeVars == <<neo, virtuoso, bridge, parity, bridgeRuns, neoChanges>>

\* The mappers: the graph they write, and whether they need --since.
To(graph) == [graph |-> graph, edge |-> FALSE, since |-> FALSE]
ReferenceMapper ==
  "cpv" :> To("cpv") @@ "nuts" :> To("nuts") @@ "listing" :> To("listing")
  @@ "cohesion" :> To("cohesion") @@ "authority" :> To("authority")
RegisterMapper == "lobbyist" :> To("lobbyist") @@ "company-lei" :> To("company")
ContractMapper == "contract" :> [To("contract") EXCEPT !.since = TRUE]

EdgeTo(graph) == [To(graph) EXCEPT !.edge = TRUE]
ContractEdge ==
  [m \in {"rel-authority-awarded", "rel-contract-awarded-to", "rel-contract-cpv"} |->
     [EdgeTo("contract-edges") EXCEPT !.since = TRUE]]
CompanyEdge == [m \in {"rel-company-located", "rel-company-listing"} |-> EdgeTo("company-edges")]
NutsEdge == "rel-nuts-partof" :> EdgeTo("nuts")
CohesionEdge == "rel-cohesion-beneficiary" :> EdgeTo("cohesion")
InterestEdge == "rel-lobbyist-interest" :> EdgeTo("lobbyist")

Registry ==
  ReferenceMapper @@ RegisterMapper @@ ContractMapper @@ ContractEdge @@ CompanyEdge
  @@ NutsEdge @@ CohesionEdge @@ InterestEdge
ASSUME BridgeAssumption ==
  BridgeClass \subseteq DOMAIN Registry /\ BridgePage \in Nat \ {0} /\ MaxBridgeRow \in Nat

GraphOf(m) == Registry[m].graph
BridgeRow == 1..MaxBridgeRow

\* skip: where the next page starts; first: it is to replace the graph; put:
\* the run has replaced it.  before, ever: rows that Neo4j had when the run began,
\* and at any time since; shrunk: a row disappeared meanwhile.
BridgeIdle ==
  [pc |-> "idle", class |-> "none", first |-> FALSE, skip |-> 0, page |-> {},
   put |-> FALSE, before |-> {}, ever |-> {}, shrunk |-> FALSE]

BridgeInit ==
  /\ \E n \in [BridgeClass -> 0..MaxBridgeRow] :
       neo = [m \in BridgeClass |-> [r \in 1..n[m] |-> r]]
  /\ virtuoso = [g \in {GraphOf(m) : m \in BridgeClass} |-> {}]
  /\ bridge = BridgeIdle /\ parity = [m \in BridgeClass |-> {}]
  /\ bridgeRuns = 0 /\ neoChanges = 0

\* A loader writes a row of the class, or a maintenance job removes one: the
\* rows behind it move up, and a new one takes the free place.
NeoChanges ==
  /\ neoChanges < MaxNeoChanges
  /\ neoChanges' = neoChanges + 1
  /\ \E m \in BridgeClass :
       /\ \/ \E r \in BridgeRow \ ToSet(neo[m]), at \in 1..Len(neo[m]) + 1 :
               neo' = [neo EXCEPT ![m] = InsertAt(@, at, r)]
          \/ \E at \in DOMAIN neo[m] : neo' = [neo EXCEPT ![m] = RemoveAt(@, at)]
       /\ bridge' = IF bridge.class = m
                      THEN [bridge EXCEPT !.ever = @ \union ToSet(neo'[m]),
                                          !.shrunk = @ \/ Len(neo'[m]) < Len(neo[m])]
                      ELSE bridge
  /\ UNCHANGED <<virtuoso, parity, bridgeRuns>>

\* What the query of the class returns: its rows, from the cutoff on.
RowsMatched(m) == {k \in DOMAIN neo[m] : Registry[m].since => neo[m][k] \notin BeforeCutoff}
Ahead(m, k) == Cardinality({i \in RowsMatched(m) : i < k})

\* main: a class that needs --since is refused without it.
StartBridge ==
  /\ bridge.pc = "idle" /\ bridgeRuns < MaxBridgeRuns
  /\ bridgeRuns' = bridgeRuns + 1
  /\ \E m \in BridgeClass, append, since \in BOOLEAN :
       /\ Registry[m].since => since
       /\ bridge' = [BridgeIdle EXCEPT !.pc = "fetch", !.class = m, !.first = ~append,
                       !.before = {neo[m][k] : k \in RowsMatched(m)}, !.ever = ToSet(neo[m])]
  /\ UNCHANGED <<neo, virtuoso, parity, neoChanges>>

\* SKIP and LIMIT: the rows that have from and more ahead of them, but not to.  The
\* queries have no ORDER BY: every page is taken to see the rows in one order.
BridgedRows(m, from, to) ==
  {neo[m][k] : k \in {i \in RowsMatched(m) : Ahead(m, i) >= from /\ Ahead(m, i) < to}}

\* fetch_pages: an empty page is the end.
FetchBridgePage ==
  /\ bridge.pc = "fetch"
  /\ LET page == BridgedRows(bridge.class, bridge.skip, bridge.skip + BridgePage) IN
       bridge' = [bridge EXCEPT !.page = page, !.pc = IF page = {} THEN "over" ELSE "push"]
  /\ UNCHANGED <<neo, virtuoso, parity, bridgeRuns, neoChanges>>

\* The rows that render to something: an edge needs both its keys.
Rendered(m, rows) == {r \in rows : Registry[m].edge => r \notin Blank}

\* Mutant: every page replaces the graph.
Replaces_EveryPage(b) == b.first \/ b.put

\* push: only the first page that has something to push is a PUT.
Replaces(b) == b.first

\* What the graph describes once the page is pushed.
Pushed(b, of) ==
  LET rows == {<<b.class, r>> : r \in Rendered(b.class, b.page)} IN
  IF rows = {} THEN of ELSE IF Replaces(b) THEN rows ELSE of \union rows

\* A page that renders to nothing is passed over; a short one is the last.
PushPage ==
  /\ bridge.pc = "push"
  /\ LET g == GraphOf(bridge.class)
         pushes == Rendered(bridge.class, bridge.page) # {} IN
       /\ virtuoso' = [virtuoso EXCEPT ![g] = Pushed(bridge, @)]
       /\ parity' = [m \in BridgeClass |->
                       IF pushes /\ bridge.first /\ GraphOf(m) = g THEN {} ELSE parity[m]]
       /\ bridge' = [bridge EXCEPT
                       !.first = @ /\ ~pushes, !.put = @ \/ (pushes /\ bridge.first),
                       !.skip = @ + BridgePage, !.page = {},
                       !.pc = IF Cardinality(bridge.page) < BridgePage THEN "over" ELSE "fetch"]
  /\ UNCHANGED <<neo, bridgeRuns, neoChanges>>

\* Neo4j or Virtuoso fails, the latter after the page was stored or before.
BridgeDies ==
  /\ bridge.pc \in {"fetch", "push"}
  /\ \E stored \in BOOLEAN :
       /\ stored => bridge.pc = "push"
       /\ LET g == GraphOf(bridge.class) IN
            /\ virtuoso' = [virtuoso EXCEPT ![g] = IF stored THEN Pushed(bridge, @) ELSE @]
            /\ parity' = [m \in BridgeClass |->
                 IF virtuoso' # virtuoso /\ bridge.first /\ GraphOf(m) = g
                   THEN {} ELSE parity[m]]
  /\ bridge' = BridgeIdle
  /\ UNCHANGED <<neo, bridgeRuns, neoChanges>>

\* The run reports its rows; the operator goes on with the next class.
EndBridge ==
  /\ bridge.pc = "over"
  /\ parity' = IF bridge.shrunk THEN parity
               ELSE [parity EXCEPT ![bridge.class] =
                      Rendered(bridge.class, bridge.before)]
  /\ bridge' = BridgeIdle
  /\ UNCHANGED <<neo, virtuoso, bridgeRuns, neoChanges>>

BridgeNext ==
  \/ NeoChanges \/ StartBridge \/ FetchBridgePage \/ PushPage \/ BridgeDies \/ EndBridge

BridgeSpec == BridgeInit /\ [][BridgeNext]_bridgeVars

----------------------------------------------------------------------------
(* Properties                                                              *)

\* What a run that went to its end owes Virtuoso is there, until a run without
\* --append replaces the graph, for the same class or another one, however
\* often others died in between, and though rows were added while it paged.
\* And such a run leaves in its graph only rows of its class that Neo4j had
\* while it ran, "without hand-cleaning", if it rendered a row at all.
BridgeKeepsParity ==
  /\ \A m \in BridgeClass : \A r \in parity[m] : <<m, r>> \in virtuoso[GraphOf(m)]
  /\ bridge.pc = "over" /\ bridge.put =>
       virtuoso[GraphOf(bridge.class)] \subseteq {<<bridge.class, r>> : r \in bridge.ever}
=============================================================================
