------------------------------- MODULE NutsLinks -------------------------------
(***************************************************************************)
(* Where the graph's companies, authorities and lobbyists are.             *)
(* sync_nuts_from_stats.py copies the regions from the statistics store,   *)
(* load_nuts.py emits those of a file, link_entities_to_nuts.py links      *)
(* every entity to the region of its postcode, or else to its country,     *)
(* and link_entities_to_nuts_postal.py adds the postcode's region to       *)
(* companies that have only their country.  Entities arrive and move       *)
(* meanwhile, and each job can die between two of its transactions.        *)
(***************************************************************************)
EXTENDS Integers, Sequences, FiniteSets, FiniteSetsExt

CONSTANTS
  Place,        \* entities, numbered by their id
  PlaceLabel,   \* PlaceLabel[e]: its label
  Labels,       \* ENTITY_LABELS, in order
  NutsCode,     \* fontem_stats.nuts_region: codes as sequences, <<"EL">>, <<"EL", "3">>, ...
  Alpha3,       \* Alpha3[a]: the alpha-3 code of the alpha-2 code a of a region
  PostCode,     \* written postcodes: [norm, squeezed], without signs, without spaces
  NoPostCode,
  PostCodeRow,  \* the vendored table, in order: <<region, postcode>>; its regions are
                \*   of level 3
  NutsFile,     \* the codes in the file of load_nuts
  LinkBatch,    \* rows of one transaction (10000)
  MaxMoves,     \* bound: addresses that change
  MaxLinkRuns,  \* bound: runs of the linkers
  MaxLinkFaults \* bound: runs that die

\* The level and the parent of a code follow from its length.
Level(code) == Len(code) - 1
ParentCode(code) == SubSeq(code, 1, Len(code) - 1)
CountryOf(code) == Alpha3[code[1]]

ASSUME NutsAssumption ==
  /\ LinkBatch \in Nat \ {0} /\ Place \subseteq Nat
  /\ NutsCode \subseteq Seq(STRING)
  /\ \A c \in NutsCode : Len(c) \in 1..4 /\ (Len(c) > 1 => ParentCode(c) \in NutsCode)
  /\ DOMAIN PostCodeRow \subseteq Nat
  /\ \A i \in DOMAIN PostCodeRow : Level(PostCodeRow[i][1]) = 3

VARIABLES
  nutsNodes,  \* the regions in the graph
  withCountry,\* those that have their country's alpha-3 code
  nutsPartOf, \* those that have a PART_OF to their parent
  address,    \* address[e]: NoAddress, or its country and postcode
  located,    \* LOCATED_IN: <<e, region>>
  nutsSync,   \* the rows that sync_nuts still has
  linker,     \* the run of link_entities_to_nuts
  postal,     \* the run of link_entities_to_nuts_postal: the rows it has scanned, -1 if none
  postalRows, \* what it has read of a page and not yet merged
  moved,      \* the entities that changed an address they had (history)
  moves, linkRuns, linkFaults

nutsVars == <<nutsNodes, withCountry, nutsPartOf, address, located, nutsSync, linker,
              postal, postalRows, moved, moves, linkRuns, linkFaults>>
regionVars == <<nutsNodes, withCountry, nutsPartOf, nutsSync>>
placeVars == <<address, moved, moves>>
postalVars == <<postal, postalRows>>

NoAddress == [country |-> "none", postcode |-> NoPostCode]

\* labels: those that the pass still has; rows: pairs that were read and not yet
\* merged, of an entity and its region, in the second pass its country; linkable:
\* the countries that have a region; owed: what the run has to link (history).
LinkerIdle == [pc |-> "idle", labels |-> <<>>, rows |-> {}, linkable |-> {}, owed |-> {}]

NutsInit ==
  /\ nutsNodes \in {{}, NutsCode} /\ withCountry = nutsNodes
  /\ nutsPartOf = {c \in nutsNodes : Level(c) > 0}
  /\ address = [e \in Place |-> NoAddress] /\ located = {}
  /\ nutsSync = {} /\ linker = LinkerIdle /\ postal = -1 /\ postalRows = {}
  /\ moved = {} /\ moves = 0 /\ linkRuns = 0 /\ linkFaults = 0

\* The sink writes an entity, with or without a postcode, or its new address.
PlaceMoves ==
  /\ moves < MaxMoves
  /\ moves' = moves + 1
  /\ \E e \in Place, a2 \in DOMAIN Alpha3, p \in PostCode \union {NoPostCode} :
       /\ address[e] # [country |-> Alpha3[a2], postcode |-> p]
       /\ address' = [address EXCEPT ![e] = [country |-> Alpha3[a2], postcode |-> p]]
       /\ moved' = IF \/ address[e] = NoAddress
                     \/ address[e] = [country |-> Alpha3[a2], postcode |-> NoPostCode]
                     THEN moved ELSE moved \union {e}
  /\ UNCHANGED <<regionVars, located, linker, postalVars, linkRuns, linkFaults>>

(* The regions                                                             *)

\* Mutant: the last level that is left.
NextLevel_Last(rows) == {c \in rows : \A d \in rows : Level(d) <= Level(c)}

\* sorted(by_level): the first level that is left.
NextLevel(rows) == {c \in rows : \A d \in rows : Level(c) <= Level(d)}

StartNutsSync ==
  /\ nutsSync = {} /\ linkRuns < MaxLinkRuns
  /\ linkRuns' = linkRuns + 1
  /\ nutsSync' = NutsCode
  /\ UNCHANGED <<nutsNodes, withCountry, nutsPartOf, placeVars, located, linker,
                 postalVars, linkFaults>>

\* One UNWIND: rows of one level; a parent that is not there yet is not linked.
SyncNuts ==
  /\ nutsSync # {}
  /\ LET now == NextLevel(nutsSync) IN
       \E rows \in kSubset(Min({LinkBatch, Cardinality(now)}), now) :
         /\ nutsNodes' = nutsNodes \union rows /\ withCountry' = withCountry \union rows
         /\ nutsPartOf' = nutsPartOf \union
              {c \in rows : Level(c) > 0 /\ ParentCode(c) \in nutsNodes'}
         /\ nutsSync' = nutsSync \ rows
  /\ UNCHANGED <<placeVars, located, linker, postalVars, linkRuns, linkFaults>>

\* load_nuts: one taxonomy event per region, its parent named, its country not.
LoadNuts ==
  /\ linkRuns < MaxLinkRuns
  /\ linkRuns' = linkRuns + 1
  /\ nutsNodes' = nutsNodes \union {c \in NutsFile : Level(c) \in 0..3}
  /\ UNCHANGED <<withCountry, nutsPartOf, nutsSync, placeVars, located, linker, postalVars,
                 linkFaults>>

(* link_entities_to_nuts                                                   *)

\* The rows of an address's postcode, under one of the two normalisations.
RowsOf(a, normal) ==
  {i \in DOMAIN PostCodeRow : /\ CountryOf(PostCodeRow[i][1]) = a.country
                             /\ PostCodeRow[i][2][normal] = a.postcode[normal]}
NoRegion == <<>>

\* load_lookup: the first row of a normalised postcode.
PostcodeRegion(a) ==
  LET rows == RowsOf(a, "norm") IN
  IF a.postcode = NoPostCode \/ rows = {} THEN NoRegion ELSE PostCodeRow[Min(rows)][1]

Known(label) == {e \in Place : PlaceLabel[e] = label /\ address[e] # NoAddress}
In3(e) == {p \in located : p[1] = e /\ Level(p[2]) = 3}
InAny(e) == {p \in located : p[1] = e}

\* Those with a postcode that are in no region of level 3.
PostcodeRows(label) ==
  {<<e, PostcodeRegion(address[e])>> :
     e \in {x \in Known(label) : In3(x) = {} /\ PostcodeRegion(address[x]) # NoRegion}}

StartLinker ==
  /\ linker.pc \in {"idle", "done"} /\ linkRuns < MaxLinkRuns
  /\ linkRuns' = linkRuns + 1
  /\ linker' = [LinkerIdle EXCEPT !.pc = "read", !.labels = Labels]
  /\ UNCHANGED <<regionVars, placeVars, located, postalVars, linkFaults>>

\* The cursor of a label; a label after the other, and then the second pass.
ReadPostcodes ==
  /\ linker.pc = "read"
  /\ linker' =
       IF linker.labels = <<>> THEN [linker EXCEPT !.pc = "list", !.labels = Labels]
       ELSE LET rows == PostcodeRows(Head(linker.labels)) IN
            [linker EXCEPT !.pc = "postcode", !.labels = Tail(@), !.rows = rows,
                           !.owed = @ \union
                             {<<r[1], 3>> : r \in {x \in rows : x[2] \in nutsNodes}}]
  /\ UNCHANGED <<regionVars, placeVars, located, postalVars, linkRuns, linkFaults>>

\* A batch of the rows; one whose region is not in the graph matches nothing.
MergePostcodes ==
  /\ linker.pc = "postcode"
  /\ \E some \in kSubset(Min({LinkBatch, Cardinality(linker.rows)}), linker.rows) :
       /\ located' = located \union {r \in some : r[2] \in nutsNodes}
       /\ linker' = [linker EXCEPT !.rows = @ \ some,
                                   !.pc = IF linker.rows = some THEN "read" ELSE "postcode"]
  /\ UNCHANGED <<regionVars, placeVars, postalVars, linkRuns, linkFaults>>

\* link_label_country: the countries that have a region, once per label.
ReadLinkable ==
  /\ linker.pc = "list"
  /\ LET linkable == {CountryOf(c) : c \in {d \in withCountry : Level(d) = 0}} IN
       linker' =
         IF linker.labels = <<>> THEN [linker EXCEPT !.pc = "done"]
         ELSE [linker EXCEPT !.pc = "country", !.linkable = linkable,
                 !.owed = @ \union {<<e, 0>> : e \in
                    {x \in Known(Head(linker.labels)) : address[x].country \in linkable}}]
  /\ UNCHANGED <<regionVars, placeVars, located, postalVars, linkRuns, linkFaults>>

\* The entities of a country that are in no region at all.
Unlinked(label) == {e \in Known(label) : InAny(e) = {}}

CountryRegion(country) ==
  CHOOSE c \in withCountry : Level(c) = 0 /\ CountryOf(c) = country

\* A page of them, in a session that only reads; an empty page ends the label.
ReadCountries ==
  /\ linker.pc = "country"
  /\ LET left == {e \in Unlinked(Head(linker.labels)) :
                    address[e].country \in linker.linkable} IN
       IF left = {}
         THEN linker' = [linker EXCEPT !.pc = "list", !.labels = Tail(@)]
         ELSE \E page \in kSubset(Min({LinkBatch, Cardinality(left)}), left) :
                linker' = [linker EXCEPT !.pc = "edges",
                             !.rows = {<<e, address[e].country>> : e \in page}]
  /\ UNCHANGED <<regionVars, placeVars, located, postalVars, linkRuns, linkFaults>>

\* Their edges, to the region of the country that was read.
MergeCountries ==
  /\ linker.pc = "edges"
  /\ located' = located \union {<<r[1], CountryRegion(r[2])>> : r \in linker.rows}
  /\ linker' = [linker EXCEPT !.pc = "country", !.rows = {}]
  /\ UNCHANGED <<regionVars, placeVars, postalVars, linkRuns, linkFaults>>

(* link_entities_to_nuts_postal                                            *)

\* load_postal_lookup: the last row of a postcode, of which only spaces are taken out.
PostalResolved(a) ==
  LET rows == RowsOf(a, "squeezed") IN
  IF rows = {} THEN NoRegion ELSE PostCodeRow[Max(rows)][1]

StartPostal ==
  /\ postal = -1 /\ linkRuns < MaxLinkRuns
  /\ linkRuns' = linkRuns + 1 /\ postal' = 0 /\ UNCHANGED postalRows
  /\ UNCHANGED <<regionVars, placeVars, located, linker, linkFaults>>

\* The companies with a postcode, by id: SKIP and LIMIT; those whose postcode is
\* in the table are the page's rows.
ReadPostalPage ==
  /\ postal >= 0 /\ postalRows = {}
  /\ LET all == {e \in Known("Company") : address[e].postcode # NoPostCode}
         page == {e \in all : Cardinality({d \in all : d < e}) \in postal..(postal + LinkBatch - 1)} IN
       /\ postalRows' = {<<e, PostalResolved(address[e])>> :
                           e \in {x \in page : PostalResolved(address[x]) # NoRegion}}
       /\ postal' = IF page = {} THEN -1 ELSE postal + LinkBatch
  /\ UNCHANGED <<regionVars, placeVars, located, linker, linkRuns, linkFaults>>

\* _MERGE_Q: its edges; a row whose region is not in the graph matches nothing.
MergePostalPage ==
  /\ postalRows # {}
  /\ located' = located \union {r \in postalRows : r[2] \in nutsNodes}
  /\ postalRows' = {}
  /\ UNCHANGED <<regionVars, placeVars, linker, postal, linkRuns, linkFaults>>

LinkJobDies ==
  /\ linkFaults < MaxLinkFaults
  /\ linkFaults' = linkFaults + 1
  /\ \/ /\ linker.pc \notin {"idle", "done"} /\ linker' = LinkerIdle
        /\ UNCHANGED <<postalVars, nutsSync>>
     \/ /\ postal >= 0 /\ postal' = -1 /\ postalRows' = {}
        /\ UNCHANGED <<linker, nutsSync>>
     \/ nutsSync # {} /\ nutsSync' = {} /\ UNCHANGED <<linker, postalVars>>
  /\ UNCHANGED <<nutsNodes, withCountry, nutsPartOf, placeVars, located, linkRuns>>

NutsNext ==
  \/ PlaceMoves \/ StartNutsSync \/ SyncNuts \/ LoadNuts
  \/ StartLinker \/ ReadPostcodes \/ MergePostcodes \/ ReadLinkable \/ ReadCountries
  \/ MergeCountries \/ StartPostal \/ ReadPostalPage \/ MergePostalPage \/ LinkJobDies

NutsSpec == NutsInit /\ [][NutsNext]_nutsVars

----------------------------------------------------------------------------
(* Properties                                                              *)

\* A run of the linker that reports what it did has linked everybody it had to:
\* each postcode of the table to its region, and everybody of a country with a
\* region at least to that, though entities arrived and moved while it read page
\* after page.  Nobody is in two regions of level 3, whichever of the two jobs
\* was first, but for an entity that moved and a postcode of which they read
\* different rows.  And every region that was synced is part of its parent,
\* though a sync died before, or load_nuts made the node.
EverybodyIsSomewhere ==
  /\ linker.pc = "done" =>
       \A o \in {x \in linker.owed : x[1] \notin moved} :
         IF o[2] = 3 THEN In3(o[1]) # {} ELSE InAny(o[1]) # {}
  /\ \A e \in Place \ moved :
       Cardinality(In3(e)) > 1 =>
         PostalResolved(address[e]) \notin {NoRegion, PostcodeRegion(address[e])}
  /\ \A c \in withCountry : Level(c) > 0 => c \in nutsPartOf
=============================================================================
