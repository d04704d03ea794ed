------------------------------- MODULE OpenFigi -------------------------------
(***************************************************************************)
(* The weekly OpenFIGI enrichment (src/src/etl/load_openfigi.py): three    *)
(* modes, one after the other, that select rows of the graph, ask OpenFIGI *)
(* about the ISINs of each, and announce the listings that it confirms;    *)
(* the last mode also retires the tickers that it does not.  The sinks are *)
(* taken to have written a mode's events before the next mode selects.     *)
(***************************************************************************)
EXTENDS Integers, FiniteSets, FiniteSetsExt

CONSTANTS
  Issuer,       \* companies with an LEI
  Ticker,       \* tickers: a listing is identified by its ticker
  Market,       \* instruments: [isin, ticker, exch, class], class below
  IsinsOf,      \* IsinsOf[c]: the ISINs in GLEIF's file for an issuer's LEI
  Placeholder,  \* listings with an ISIN and no ticker: [issuer, isin]
  BareOf,       \* BareOf[t]: a ticker without its suffix
  SuffixOf,     \* SuffixOf[t]: the suffix, or NoSuffix
  NoSuffix,
  Venues,       \* Venues[x]: the suffixes that an exchange code stands for
  NoIsin,       \* no ISIN
  Unverified,   \* LISTED_AS to tickers without an ISIN that there may be
  FigiBatch,    \* _api_limits: identifiers of a request
  FigiInflight, \* requests in flight: twice --concurrency, or 1
  MaxFigiFaults \* bound: requests that fail, runs that are killed

\* _EQUITY_SECTORS and _classify_instrument; "other" is skipped.
FigiClass == {"company", "fund", "other"}
FigiIsin == {m.isin : m \in Market}

ASSUME FigiAssumption ==
  /\ \A m \in Market : m.class \in FigiClass /\ m.ticker \in Ticker
  /\ \A c \in Issuer : IsinsOf[c] \subseteq FigiIsin
  /\ NoIsin \notin FigiIsin /\ IsFiniteSet(Issuer)
  /\ Unverified \subseteq Issuer \X Ticker
  /\ FigiBatch \in Nat \ {0} /\ FigiInflight \in Nat \ {0} /\ MaxFigiFaults \in Nat

VARIABLES
  figiMode,   \* "idle" or the mode that runs
  figiRows,   \* rows not submitted yet: [issuer, suspects, isins]
  figiPool,   \* rows submitted, not consumed
  retiring,   \* retirements of the row in hand, to be emitted next
  isinOf,     \* the graph: the ISIN of a ticker's listing
  listedAs,   \* the graph: LISTED_AS
  sameAs,     \* assertions that a ticker is another one
  figiFaults

figiVars ==
  <<figiMode, figiRows, figiPool, retiring, isinOf, listedAs, sameAs, figiFaults>>

FigiInit ==
  /\ figiMode = "idle" /\ figiRows = {} /\ figiPool = {} /\ retiring = {}
  /\ isinOf = [t \in Ticker |-> NoIsin]
  /\ listedAs \in SUBSET Unverified
  /\ sameAs = {} /\ figiFaults = 0

----------------------------------------------------------------------------
(* Selectors and answers.                                                  *)

TickersOf(c) == {e[2] : e \in {f \in listedAs : f[1] = c}}
SuspectsOf(c) == {t \in TickersOf(c) : isinOf[t] = NoIsin}
PlaceholdersOf(c) == {p.isin : p \in {q \in Placeholder : q.issuer = c}}
WitnessesOf(c) == ({isinOf[t] : t \in TickersOf(c)} \ {NoIsin}) \union PlaceholdersOf(c)

\* _resolve_lei_to_canonicals: a witness goes before GLEIF's file.
RowOf(c) ==
  [issuer |-> c, suspects |-> SuspectsOf(c),
   isins |-> IF WitnessesOf(c) # {} THEN WitnessesOf(c) ELSE IsinsOf[c]]

\* FETCH_ISINS, FETCH_LEIS_NO_LISTING, FETCH_LEIS_WITH_SUSPECT_LISTINGS.
Select(mode) ==
  CASE mode = "isin" ->
         {[issuer |-> p.issuer, suspects |-> {}, isins |-> {p.isin}] : p \in Placeholder}
    [] mode = "lei" ->
         {RowOf(c) : c \in {d \in Issuer : TickersOf(d) = {} /\ PlaceholdersOf(d) = {}}}
    [] mode = "lei-reeval" -> {RowOf(c) : c \in {d \in Issuer : SuspectsOf(d) # {}}}

\* The instruments of the ISINs whose request was answered.
Found(row, failed) == {m \in Market : m.isin \in row.isins \ failed}
Canonicals(found) == {m \in found : m.class = "company"}

\* _pick_replacement: the tickers it may pick.
Replacements(suspect, canon) ==
  LET named == {c.ticker : c \in {d \in canon : d.ticker = BareOf[suspect]}}
      venue == {c.ticker : c \in {d \in canon : SuffixOf[suspect] \in Venues[d.exch]}}
      listings == {<<c.ticker, c.exch>> : c \in canon}
  IN IF named # {} THEN named
     ELSE IF venue # {} THEN venue
     ELSE IF Cardinality(listings) = 1 THEN {l[1] : l \in listings} ELSE {}

\* _retires_for_suspects: one record per suspect that the answer lacks and
\* that has a replacement.
Unconfirmed(row, canon) ==
  {s \in row.suspects \ {c.ticker : c \in canon} : Replacements(s, canon) # {}}
RetireSets(row, canon) ==
  {{<<s, f[s]>> : s \in DOMAIN f} :
     f \in {g \in [Unconfirmed(row, canon) -> Ticker] :
              \A s \in DOMAIN g : g[s] \in Replacements(s, canon)}}

----------------------------------------------------------------------------
(* The run.                                                                *)

\* The pools that a mode may start with.
Filled(rows) ==
  {p \in SUBSET rows : Cardinality(p) = Min({FigiInflight, Cardinality(rows)})}

EnterMode(mode) ==
  LET rows == Select(mode) IN
  /\ figiMode' = mode
  /\ \E p \in Filled(IF mode = "isin" THEN {} ELSE rows) :
       figiPool' = p /\ figiRows' = rows \ p
  /\ UNCHANGED <<retiring, isinOf, listedAs, sameAs, figiFaults>>

ModeOver == figiPool = {} /\ retiring = {} /\ (figiMode = "isin" => figiRows = {})

\* load_openfigi with --mode both.
NextMode ==
  /\ ModeOver
  /\ \/ figiMode = "idle" /\ EnterMode("isin")
     \/ figiMode = "isin" /\ EnterMode("lei")
     \/ figiMode = "lei" /\ EnterMode("lei-reeval")
     \/ /\ figiMode = "lei-reeval" /\ figiMode' = "idle"
        /\ UNCHANGED <<figiRows, figiPool, retiring, isinOf, listedAs, sameAs, figiFaults>>

\* Answers that may be lost: query_openfigi returns nothing and goes on.
Lost(asked, failed) ==
  /\ failed \subseteq asked
  /\ IF failed = {} THEN figiFaults' = figiFaults
     ELSE figiFaults < MaxFigiFaults /\ figiFaults' = figiFaults + 1

\* emit_listing_events: a batch of its own.
Announce(pairs) == \* pairs of an issuer and an instrument
  /\ LET named == {p[2].ticker : p \in pairs} IN
     \E last \in [named -> {p[2].isin : p \in pairs}] :
       /\ \A t \in named : \E p \in pairs : p[2].ticker = t /\ p[2].isin = last[t]
       /\ isinOf' = [t \in Ticker |-> IF t \in named THEN last[t] ELSE isinOf[t]]
  /\ listedAs' = listedAs \union {<<p[1], p[2].ticker>> : p \in pairs}

\* _run_mode: a request, and the first instrument of each identifier, whatever
\* its kind.
AskBatch ==
  /\ figiMode = "isin" /\ figiRows # {}
  /\ \E batch \in SUBSET figiRows, answered \in BOOLEAN :
       /\ Cardinality(batch) = Min({FigiBatch, Cardinality(figiRows)})
       /\ Lost({"batch"}, IF answered THEN {} ELSE {"batch"})
       /\ figiRows' = figiRows \ batch
       /\ \E first \in [batch -> Market] :
            /\ \A r \in batch : first[r].isin \in r.isins
            /\ Announce(IF answered THEN {<<r.issuer, first[r]>> : r \in batch} ELSE {})
  /\ UNCHANGED <<figiMode, figiPool, retiring, sameAs>>

\* Mutant: a row without an answer does not make room for the next one.
NextRows_Found(canon) ==
  IF canon = {} \/ figiRows = {} THEN {{}} ELSE {{r} : r \in figiRows}

\* One row is submitted for each that is consumed.
NextRows(canon) == IF figiRows = {} THEN {{}} ELSE {{r} : r \in figiRows}

\* _consume, for a row whose requests are over.
Consume(row) ==
  /\ retiring = {} /\ figiMode # "isin"
  /\ \E failed \in SUBSET row.isins :
       LET found == Found(row, failed)
           canon == Canonicals(found)
       IN /\ Lost(row.isins, failed)
          /\ Announce({row.issuer} \X Canonicals(found))
          /\ IF figiMode = "lei-reeval"
               THEN retiring' \in RetireSets(row, canon) ELSE retiring' = {}
          /\ \E next \in NextRows(canon) :
               /\ figiPool' = (figiPool \ {row}) \union next
               /\ figiRows' = figiRows \ next
  /\ UNCHANGED <<figiMode, sameAs>>

\* emit_retire_events: a batch of its own; an inactive listing loses LISTED_AS.
Retire ==
  /\ retiring # {}
  /\ sameAs' = sameAs \union retiring
  /\ listedAs' = {e \in listedAs : \A r \in retiring : e[2] # r[1]}
  /\ retiring' = {}
  /\ UNCHANGED <<figiMode, figiRows, figiPool, isinOf, figiFaults>>

\* The deadline, a kill, GLEIF's file missing: what was emitted stays.
FigiAbort ==
  /\ figiMode # "idle" /\ figiFaults < MaxFigiFaults
  /\ figiFaults' = figiFaults + 1
  /\ figiMode' = "idle" /\ figiRows' = {} /\ figiPool' = {} /\ retiring' = {}
  /\ UNCHANGED <<isinOf, listedAs, sameAs>>

FigiNext ==
  NextMode \/ AskBatch \/ Retire \/ FigiAbort \/ \E row \in figiPool : Consume(row)

FigiSpec == FigiInit /\ [][FigiNext]_figiVars

----------------------------------------------------------------------------
(* Properties.                                                             *)

\* Whatever failed in between, a ticker is redirected only to a ticker that
\* OpenFIGI confirmed with an ISIN and that was announced before: never to a
\* fund's, and never to one that a lost batch was to announce.
RedirectsAreListed == \A r \in sameAs : r[1] # r[2] /\ isinOf[r[2]] # NoIsin

\* A mode that runs to its end leaves no row behind, in whatever order the
\* requests of the pool come back and however many of them fail.
NoRowLeft ==
  [][figiMode \notin {figiMode', "idle"} /\ figiFaults' = figiFaults => figiRows = {}]_figiVars

\* A mode asks about every ticker, and redirects none to one that is not listed.
TickersSettle == []RedirectsAreListed /\ NoRowLeft
=============================================================================
