------------------------------- MODULE NutsNames -------------------------------
(***************************************************************************)
(* The names of the NUTS regions.  build_nuts_gazetteer.py merges the      *)
(* names of Eurostat, of the Publications Office and of Wikidata into one  *)
(* entry per region; the API reads the artifact once                       *)
(* (data/nuts_gazetteer.py, nuts_api/index.py) and answers searches by any *)
(* name, and questions about one region (nuts_api/routers/regions.py).     *)
(***************************************************************************)
EXTENDS Integers, Sequences, FiniteSets, SequencesExt, FiniteSetsExt, OrderedRows

CONSTANTS
  NutsRegion,   \* the codes of the vintage, as sequences: the country first
  RetiredCode,  \* codes of earlier vintages
  CodePlace,    \* CodePlace[c]: where c comes in the order of strings
  Tongues,      \* LANGUAGES
  NoLabel,      \* no name
  NameSources,  \* the contents that the sources can have, as records (below)
  Spoken,       \* Spoken[c]: the language of country c
  SearchText    \* the queries, folded

\* A name: its letters, a sequence that may hold Blanks, and whether it is clean:
\* no letter of another alphabet that only looks right.
BlankLetter == " "
AnyCode == NutsRegion \union RetiredCode
Name == [letters : Seq(STRING) \ {<<>>}, clean : BOOLEAN]

\* native, latn: Eurostat's names; labels[c][l], aliases[c]: Wikidata's; official:
\* the country table; metro: the metro region; replaces[c]: the codes c replaced.
ASSUME NamesAssumption ==
  /\ IsFiniteSet(NutsRegion) /\ IsFiniteSet(RetiredCode)
  /\ \A c \in AnyCode : c \in Seq(STRING) /\ c # <<>>
  /\ \A c \in NutsRegion : CodePlace[c] \in Nat
  /\ \A c, d \in NutsRegion : CodePlace[c] = CodePlace[d] => c = d
  /\ \A s \in NameSources :
       /\ \A c \in NutsRegion :
            /\ s.native[c] \in Name /\ s.latn[c] \in Name
            /\ s.metro[c] \in Name \union {NoLabel}
            /\ Len(c) = 1 => \A l \in Tongues : s.official[c][l] \in Name \union {NoLabel}
       /\ \A c \in AnyCode :
            /\ \A l \in Tongues : s.labels[c][l] \in Name \union {NoLabel}
            /\ s.aliases[c] \subseteq Name
            /\ s.replaces[c] \subseteq RetiredCode

VARIABLES
  sources,    \* what the sources say
  gazetteer,  \* the artifact: an entry per region
  loaded,     \* the artifact that the API process has read, or NoArtifact
  response      \* the answer of the API

namesVars == <<sources, gazetteer, loaded, response>>

NoArtifact == [c \in {} |-> {}]
NoAnswerYet == [of |-> "nothing"]

NamesInit ==
  /\ sources \in NameSources
  /\ gazetteer = NoArtifact /\ loaded = NoArtifact /\ response = NoAnswerYet

\* fold: the letters without case and accents.  A letter that only looks right
\* stays another one.
Fold(n) == IF n.clean THEN n.letters ELSE <<"?">> \o Tail(n.letters)

\* normalise_name: puts such letters back into the alphabet of the name.
Normal(n) == [n EXCEPT !.clean = TRUE]

----------------------------------------------------------------------------
(* The build                                                               *)

\* The codes that c replaced itself: one step of the walk below.  Alone, the mutant
\* of Predecessors.
Predecessors_Direct(c, s, order) ==
  Top([d \in s.replaces[c] |-> <<order[d]>>], Cardinality(RetiredCode))

\* One turn of the loop: the next code of the queue, if it was not seen before.
NextCode(was, s, order) ==
  LET c == Head(was.queue) IN
  IF was.queue = <<>> THEN was
  ELSE IF c \in ToSet(was.seen) THEN [was EXCEPT !.queue = Tail(@)]
  ELSE [queue |-> Tail(was.queue) \o Predecessors_Direct(c, s, order),
        seen |-> Append(was.seen, c)]

\* predecessors: the codes that c replaced, directly or not, each once, breadth
\* first; those that one code replaced, in the order of a Python set.  A code is
\* put into the queue by c or by another code, and by none of them twice.
MaxTurns == Cardinality(RetiredCode) * (Cardinality(RetiredCode) + 1)
Predecessors(c, s, order) ==
  LET walk[i \in 0..MaxTurns] ==
        IF i = 0 THEN [queue |-> Predecessors_Direct(c, s, order), seen |-> <<>>]
        ELSE NextCode(walk[i - 1], s, order)
  IN  walk[MaxTurns].seen

Named(by) == {<<l, Normal(by[l])>> : l \in {x \in Tongues : by[x] # NoLabel}}
OwnLabels(c, s) == Named(s.labels[c])
OwnAliases(c, s) == {Normal(a) : a \in s.aliases[c]}
HasLabels(c, s) == OwnLabels(c, s) # {} \/ OwnAliases(c, s) # {}

ParentOf(c) == Front(c)
ChildrenOf(c) == {d \in NutsRegion : Len(d) = Len(c) + 1 /\ ParentOf(d) = c}

\* _donor_codes: predecessors, then the only child, then the parent of an only
\* child; those that have no labels are passed over.
Donors(c, s, order) ==
  Predecessors(c, s, order)
  \o (IF Cardinality(ChildrenOf(c)) = 1 THEN <<CHOOSE d \in ChildrenOf(c) : TRUE>> ELSE <<>>)
  \o (IF Len(c) > 1 /\ ParentOf(c) \in NutsRegion /\ ChildrenOf(ParentOf(c)) = {c}
      THEN <<ParentOf(c)>> ELSE <<>>)

\* The code whose labels an entry shows: its own, or the first donor's.
Labelled(c, s, order) ==
  LET donors == Donors(c, s, order)
      able == {i \in DOMAIN donors : HasLabels(donors[i], s)} IN
  IF HasLabels(c, s) \/ able = {} THEN c ELSE donors[Min(able)]

\* _entry_for: official names win and leave the others as aliases; an alias that
\* reads like a name the entry has is dropped.
GazetteerEntry(c, s, order) ==
  LET from == Labelled(c, s, order)
      native == Normal(s.native[c])
      latn == Normal(s.latn[c])
      labels == OwnLabels(from, s)
      official == IF Len(c) > 1 THEN {} ELSE Named(s.official[c])
      ousted == {p \in labels : official # {} /\ p \notin official}
      kept == official \union {p \in labels : \A o \in official : o[1] # p[1]}
      metro == {Normal(n) : n \in {s.metro[c]} \ {NoLabel}}
      told == {Fold(native), Fold(latn)} \union {Fold(p[2]) : p \in kept}
      aliases == OwnAliases(from, s) \union metro \union {p[2] : p \in ousted} IN
  [native |-> native, latn |-> latn, labels |-> kept,
   aliases |-> {a \in aliases : Fold(a) \notin told}]

BuildGazetteer ==
  /\ \E order \in [RetiredCode -> 1..Cardinality(RetiredCode)] :
       /\ \A c, d \in RetiredCode : c # d => order[c] # order[d]
       /\ gazetteer' = [c \in NutsRegion |-> GazetteerEntry(c, sources, order)]
  /\ UNCHANGED <<sources, loaded, response>>

----------------------------------------------------------------------------
(* The API: everything below is computed once, from the artifact           *)

StartNutsApi ==
  /\ gazetteer # NoArtifact
  /\ loaded' = gazetteer /\ response' = NoAnswerYet
  /\ UNCHANGED <<sources, gazetteer>>

\* name_index: every form of every region, its code included.
Form(kind, c, l, n) == [kind |-> kind, code |-> c, lang |-> l, name |-> n]
Forms(c) ==
  LET e == loaded[c] IN
  {Form("code", c, "any", [letters |-> c, clean |-> TRUE]),
   Form("native", c, "any", e.native), Form("latn", c, "any", e.latn)}
  \union {Form("name", c, p[1], p[2]) : p \in e.labels}
  \union {Form("alias", c, "any", a) : a \in e.aliases}

Holds(text, q) == \E i \in 1..Len(text) : IsPrefix(q, SubSeq(text, i, Len(text)))
AtWord(text, q) == IsPrefix(q, text) \/ Holds(text, <<BlankLetter>> \o q)

\* _rank: 0 to 5, the strongest first.
NoMatch == 9
RankOf(f, q, lang) ==
  LET text == Fold(f.name) IN
  CASE f.kind = "code" -> IF q = text THEN 0 ELSE IF IsPrefix(q, text) THEN 5 ELSE NoMatch
    [] f.kind # "code" /\ ~Holds(text, q) -> NoMatch
    [] f.kind # "code" /\ Holds(text, q) /\ ~AtWord(text, q) -> 5
    [] f.kind = "alias" /\ Holds(text, q) /\ AtWord(text, q) -> 4
    [] f.kind = "name" /\ Holds(text, q) /\ AtWord(text, q) -> IF f.lang = lang THEN 1 ELSE 3
    [] OTHER -> 2

\* _best_per_region: one hit per region, through its strongest form.
RegionHits(q, lang, keep) ==
  {h \in {[code |-> c, rank |-> Min({RankOf(f, q, lang) : f \in Forms(c)})] : c \in keep} :
     h.rank # NoMatch}

\* A hit shows a form that was as strong, and the name in the language.
HitShown(h, q, lang) ==
  LET e == loaded[h.code]
      through == CHOOSE f \in Forms(h.code) : RankOf(f, q, lang) = h.rank
      inTongue == {p \in e.labels : p[1] = lang} IN
  [code |-> h.code, rank |-> h.rank, matched |-> through.name,
   name |-> IF inTongue # {} THEN (CHOOSE p \in inTongue : TRUE)[2] ELSE e.latn]

\* The strongest hits first, those that are as strong in the order of their codes.
HitKeys(hits) == [h \in hits |-> <<h.rank, CodePlace[h.code]>>]

\* search_regions: of a country and down to a level, the strongest hits first.
SearchRegions ==
  /\ loaded # NoArtifact
  /\ \E q \in SearchText, lang \in Tongues, maxLevel \in {0, 3}, limit \in {1, 100} :
       LET keep == {c \in NutsRegion : Len(c) - 1 <= maxLevel}
           hits == RegionHits(q, lang, keep)
           rows == Top(HitKeys(hits), limit) IN
       response' = [of |-> "search", query |-> q, lang |-> lang, keep |-> keep,
                  total |-> Cardinality(hits),
                  rows |-> [i \in DOMAIN rows |-> HitShown(rows[i], q, lang)]]
  /\ UNCHANGED <<sources, gazetteer, loaded>>

\* localised: the label; else the native name for who speaks it; else the Latin one.
Localised(c, lang) ==
  LET e == loaded[c]
      inTongue == {p \in e.labels : p[1] = lang} IN
  IF inTongue # {} THEN (CHOOSE p \in inTongue : TRUE)[2]
  ELSE IF Spoken[c[1]] = lang THEN e.native ELSE e.latn

\* one_region: with its ancestors, the closest first, and its children.
Ancestors(c) == [i \in 1..Len(c) - 1 |-> SubSeq(c, 1, Len(c) - i)]
OneRegion ==
  /\ loaded # NoArtifact
  /\ \E c \in NutsRegion, lang \in Tongues :
       response' = [of |-> "region", code |-> c, lang |-> lang, name |-> Localised(c, lang),
                  ancestors |-> SelectSeq(Ancestors(c), LAMBDA a : a \in NutsRegion),
                  children |-> ChildrenOf(c)]
  /\ UNCHANGED <<sources, gazetteer, loaded>>

NamesNext ==
  \/ BuildGazetteer \/ StartNutsApi \/ SearchRegions \/ OneRegion

NamesSpec == NamesInit /\ [][NamesNext]_namesVars
----------------------------------------------------------------------------
(* Properties                                                              *)

\* What the sources say of a region itself, and all it replaced.
SaidOf(c) ==
  {Normal(sources.native[c]), Normal(sources.latn[c])} \union OwnAliases(c, sources)
  \union {p[2] : p \in OwnLabels(c, sources)}
  \union {Normal(n) : n \in {sources.metro[c]} \ {NoLabel}}
Replaced(c) ==
  {d \in RetiredCode : \A S \in SUBSET RetiredCode :
     (\A x \in S \union {c} : sources.replaces[x] \subseteq S) => d \in S}

FoundBy(c, n) ==
  \A lang \in Tongues :
    \E h \in RegionHits(n.letters, lang, NutsRegion) : h.code = c /\ h.rank <= 4

\* A region is found by every name that a source gives it, typed in its own letters
\* and without accents, by readers of any language, and not just as a fragment of
\* another name, though official names oust others and names that read alike are
\* dropped; and a region without a name in Wikidata by all names of one code that
\* it replaced, however many vintages ago, if one of those has any.
EveryNameIsFound ==
  loaded # NoArtifact /\ response = NoAnswerYet =>
    \A c \in NutsRegion :
      /\ \A n \in SaidOf(c) : FoundBy(c, n)
      /\ LET donors == {d \in Replaced(c) : HasLabels(d, sources)} IN
           ~HasLabels(c, sources) /\ donors # {} =>
             \E d \in donors : \A n \in OwnAliases(d, sources) \union
                                        {p[2] : p \in OwnLabels(d, sources)} : FoundBy(c, n)

\* A hit shows a name that holds what was typed, no weaker hit takes the place of a
\* stronger one, and the total counts the regions that were cut off; a region is
\* among the children of its closest ancestor.
AnswersFit ==
  /\ response.of = "search" =>
       LET hits == RegionHits(response.query, response.lang, response.keep)
           rows == response.rows IN
       /\ response.total = Cardinality(hits)
       /\ \A i \in DOMAIN rows :
            /\ Holds(Fold(rows[i].matched), response.query)
            /\ \A h \in hits : h.rank < rows[i].rank => \E j \in 1..i : rows[j].code = h.code
  /\ response.of = "region" =>
       \A d \in response.children : Ancestors(d)[1] = response.code

NamesAreFound == EveryNameIsFound /\ AnswersFit
=============================================================================
