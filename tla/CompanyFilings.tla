---------------------------- MODULE CompanyFilings -----------------------------
(***************************************************************************)
(* The annual figures of listed companies.  EDGAR's files are read twice:  *)
(* by the loader that logs one filing per company and year                 *)
(* (src/src/etl/load_us_financials.py) and by the API, which serves        *)
(* figures from the files themselves                                       *)
(* (src/src/data/north_america/local_edgar_fetcher.py).  ESEF's summaries  *)
(* and the tickers of both come from load_eu_listings.py and               *)
(* load_us_companies.py.  Each run logs one batch; the graph merges it.    *)
(***************************************************************************)
EXTENDS Naturals, Sequences, FiniteSets, SequencesExt, FiniteSetsExt

CONSTANTS
  Cik,           \* EDGAR's companies
  Figure,        \* the figures of a filing
  LoaderNames,   \* LoaderNames[f]: the XBRL concepts of f for the loader, best first
  FetcherNames,  \* FetcherNames[f]: those of the API
  FactFiles,     \* the contents a companyfacts file can have: facts in order
  Junk,          \* the values that the schema of the event log rejects
  SymbolOf,      \* SymbolOf[c]: the ticker that company_tickers.json gives c
  EsefEntity,    \* ESEF's entities: [lei, company, ticker, isin], TRUE if stated
  EsefSummaries, \* the summaries that can be there: sequences of [lei, company, year,
                 \*   value]; a company is named by its LEI, those of EDGAR by their CIK
  KeptYears,     \* years of a company that are logged (10)
  LastYear,      \* the last plausible year: next year
  MaxDownloads,  \* bound: downloads
  MaxFilingRuns  \* bound: runs of loaders

ASSUME FilingsAssumption ==
  /\ KeptYears \in Nat \ {0} /\ LastYear \in Nat
  /\ \A f \in Figure : \A names \in {LoaderNames[f], FetcherNames[f]} :
       names # <<>> /\ names \in Seq(ToSet(names))
  /\ \A s \in FactFiles \union EsefSummaries : s \in Seq(ToSet(s))
  /\ \A docs \in EsefSummaries : \A d \in ToSet(docs) : d.company \notin Cik

VARIABLES
  factFile,    \* factFile[c]: the companyfacts of c
  tickerMap,   \* the companies in company_tickers.json
  filings,     \* the filings of the graph: [company, year, figure, value]
  companies,   \* the companies announced to the graph
  listed,      \* the listings: <<ticker, company>>, one per ticker
  loadedFrom,  \* loadedFrom[c]: the file that the last run of the loader read of c
  symbols,     \* the companies that the API knew when it started
  answer,      \* the API's last answer
  downloads, filingRuns

filingVars == <<factFile, tickerMap, filings, companies, listed, loadedFrom, symbols, answer,
                downloads, filingRuns>>

\* A fact, of the fiscal year: annual (of a 10-K, 20-F or 40-F), wholeYear (340
\* days, or an instant).
NoFacts == <<>>
NoAnswer == [company |-> "none", file |-> NoFacts, figures |-> {}]

FilingsInit ==
  /\ factFile \in [Cik -> FactFiles] /\ tickerMap = Cik
  /\ filings = {} /\ companies = {} /\ listed = {}
  /\ loadedFrom = [c \in Cik |-> NoFacts] /\ symbols = {} /\ answer = NoAnswer
  /\ downloads = 0 /\ filingRuns = 0

\* EDGAR restates figures, and tickers come and go.
Downloads ==
  /\ downloads < MaxDownloads
  /\ downloads' = downloads + 1
  /\ \E c \in Cik :
       \/ /\ \E file \in FactFiles : factFile' = [factFile EXCEPT ![c] = file]
          /\ UNCHANGED tickerMap
       \/ /\ tickerMap' = IF c \in tickerMap THEN tickerMap \ {c} ELSE tickerMap \union {c}
          /\ UNCHANGED factFile
  /\ UNCHANGED <<filings, companies, listed, loadedFrom, symbols, answer, filingRuns>>

(* A concept's figures, for both                                           *)

\* The facts of one concept that count, in the order of the file: a later one
\* overwrites what is there for its year.
Overwritten(series, file, concept, counted) ==
  LET upTo[i \in 0..Len(file)] ==
        IF i = 0 THEN series
        ELSE IF file[i].concept = concept /\ file[i] \in counted
        THEN [y \in DOMAIN upTo[i - 1] \union {file[i].year} |->
                IF y = file[i].year THEN file[i].value ELSE upTo[i - 1][y]]
        ELSE upTo[i - 1]
  IN  upTo[Len(file)]

(* The loader's figures                                                    *)

\* Mutant: the best concept first, so that the others overwrite it.
Ordered_BestFirst(names) == names

\* The worst concept first: the best one overwrites it.
Ordered(names) == Reverse(names)

\* Each concept written over the series of the worse ones.
Series(file, names, counted) ==
  LET after[n \in 0..Len(names)] ==
        IF n = 0 THEN <<>> ELSE Overwritten(after[n - 1], file, Ordered(names)[n], counted)
  IN  after[Len(names)]

\* _extract_annual: the newest years of any figure, then only the plausible ones.
AnnualForm(file) == {e \in ToSet(file) : e.annual}
Newest(years, n) == {y \in years : Cardinality({z \in years : z > y}) < n}
Plausible(y) == y \in 1990..LastYear
ExtractedAnnual(file) ==
  LET raw == [f \in Figure |-> Series(file, LoaderNames[f], AnnualForm(file))]
      years == {y \in Newest(UNION {DOMAIN raw[f] : f \in Figure}, KeptYears) : Plausible(y)} IN
  UNION {{[year |-> y, figure |-> f, value |-> raw[f][y]] :
            y \in years \intersect DOMAIN raw[f]} : f \in Figure}

\* One event per year: "the schema rejects them at emit time", and a year with a
\* value that it rejects is skipped.
ValidRecords(file) ==
  {e \in ExtractedAnnual(file) :
     \A o \in ExtractedAnnual(file) : o.year = e.year => o.value \notin Junk}

\* An upsert overwrites the figures it states; the others stay.
UpsertedFilings(old, new) ==
  {o \in old : \A n \in new : n.company = o.company /\ n.year = o.year => n.figure # o.figure}
    \union new

\* load_us_financials: companies that have a ticker, and a file that can be read.
LoadUsFinancials ==
  /\ filingRuns < MaxFilingRuns
  /\ filingRuns' = filingRuns + 1
  /\ filings' = UpsertedFilings(filings,
       UNION {{[company |-> c, year |-> e.year, figure |-> e.figure, value |-> e.value] :
                 e \in ValidRecords(factFile[c])} : c \in tickerMap})
  /\ loadedFrom' = [c \in Cik |-> IF c \in tickerMap THEN factFile[c] ELSE loadedFrom[c]]
  /\ UNCHANGED <<factFile, tickerMap, companies, listed, symbols, answer, downloads>>

\* A listing is named by its ticker alone.
Relisted(old, new) == {l \in old : \A n \in new : n[1] # l[1]} \union new

LoadUsCompanies ==
  /\ filingRuns < MaxFilingRuns
  /\ filingRuns' = filingRuns + 1
  /\ companies' = companies \union tickerMap
  /\ listed' = Relisted(listed, {<<SymbolOf[c], c>> : c \in tickerMap})
  /\ UNCHANGED <<factFile, tickerMap, filings, loadedFrom, symbols, answer, downloads>>

\* load_eu_listings: entities, with a listing if ticker and ISIN are known, and
\* the summaries of those with an LEI, in one batch.
LoadEuListings ==
  /\ filingRuns < MaxFilingRuns
  /\ filingRuns' = filingRuns + 1
  /\ companies' = companies \union {e.company : e \in EsefEntity}
  /\ LET traded == {e \in EsefEntity : e.ticker # "" /\ e.isin} IN
       listed' = Relisted(listed, {<<e.ticker, e.company>> : e \in traded})
  /\ \E docs \in EsefSummaries :
       LET kept == {i \in DOMAIN docs : docs[i].lei /\ Plausible(docs[i].year)}
           Key(i) == <<docs[i].company, docs[i].year>>
           last == {docs[i] : i \in {i \in kept : \A j \in kept : j > i => Key(j) # Key(i)}} IN
         filings' = UpsertedFilings(filings, {[company |-> d.company, year |-> d.year,
                                        figure |-> "revenue", value |-> d.value] : d \in last})
  /\ UNCHANGED <<factFile, tickerMap, loadedFrom, symbols, answer, downloads>>

(* The API's figures                                                       *)

\* LocalEdgarFetcher: the tickers are read once, at the start.
StartApi ==
  /\ symbols' = tickerMap /\ answer' = NoAnswer
  /\ UNCHANGED <<factFile, tickerMap, filings, companies, listed, loadedFrom, downloads,
                 filingRuns>>

\* _build_concept_map: by concept and year, without the parts of a year, whatever
\* the form.
WholeYear(file) == {e \in ToSet(file) : e.wholeYear}
ConceptMap(file) ==
  [n \in {e.concept : e \in WholeYear(file)} |->
     Overwritten(<<>>, file, n, WholeYear(file))]

\* _get_annual_series: "iterate low to high priority", dict.update.
Updated(old, new) ==
  [y \in DOMAIN old \union DOMAIN new |-> IF y \in DOMAIN new THEN new[y] ELSE old[y]]
AnnualSeries(map, names) ==
  LET merged[k \in 0..Len(names)] ==
        IF k = 0 THEN <<>>
        ELSE IF Reverse(names)[k] \in DOMAIN map
        THEN Updated(merged[k - 1], map[Reverse(names)[k]])
        ELSE merged[k - 1]
  IN  merged[Len(names)]

\* fetch_fundamentals: the newest years of each figure; equity may follow from two
\* others (left out).
Fetched(file) ==
  UNION {LET s == AnnualSeries(ConceptMap(file), FetcherNames[f]) IN
           {[year |-> y, figure |-> f, value |-> s[y]] : y \in Newest(DOMAIN s, KeptYears)} :
           f \in Figure}

\* A symbol the API does not know is refused before any file is opened.
FetchFundamentals ==
  /\ \E c \in symbols :
       /\ Fetched(factFile[c]) # {}
       /\ answer' = [company |-> c, file |-> factFile[c], figures |-> Fetched(factFile[c])]
  /\ UNCHANGED <<factFile, tickerMap, filings, companies, listed, loadedFrom, symbols,
                 downloads, filingRuns>>

FilingsNext ==
  \/ Downloads \/ LoadUsFinancials \/ LoadUsCompanies \/ LoadEuListings
  \/ StartApi \/ FetchFundamentals

FilingsSpec == FilingsInit /\ [][FilingsNext]_filingVars

----------------------------------------------------------------------------
(* Properties                                                              *)

\* What a reader should see of a figure and a year: the last fact of the best
\* concept that the file has for them.
Best(file, names, y, counted) ==
  LET at(n) == {i \in DOMAIN file :
                  file[i].concept = names[n] /\ file[i].year = y /\ file[i] \in counted}
      n == Min({m \in DOMAIN names : at(m) # {}}) IN
  file[Max(at(n))].value

\* The facts that a reader has of a figure and a year.
Facts(file, names, y, counted) ==
  {i \in DOMAIN file : /\ file[i] \in counted /\ file[i].year = y
                       /\ \E n \in DOMAIN names : names[n] = file[i].concept}

Prefers(names, c, d) ==
  \E m \in DOMAIN names : /\ names[m] = c
                          /\ \A n \in DOMAIN names : names[n] = d => m < n

\* Both readers have the same facts of this figure and year, and rank the concepts of
\* these facts alike, however they rank others.
SameEvidence(file, f, y) ==
  LET facts == Facts(file, LoaderNames[f], y, AnnualForm(file)) IN
  /\ facts = Facts(file, FetcherNames[f], y, WholeYear(file))
  /\ \A i, j \in facts :
       Prefers(LoaderNames[f], file[i].concept, file[j].concept) <=>
         Prefers(FetcherNames[f], file[i].concept, file[j].concept)

\* Each reader shows of a year the last fact of the concept it ranks best.  The
\* graph does so for the file that the loader read last, of the years kept that the
\* schema accepts, however often figures were restated, companies lost their ticker,
\* and other loaders ran in between.  Of one file the two differ in a year only if
\* they have different facts of it or rank the concepts of these differently; and the
\* API misses no year of the graph's unless they do in some year of the figure.
ReadersAgree ==
  /\ \A c \in Cik : \A e \in ValidRecords(loadedFrom[c]) :
       \E g \in filings :
         /\ g.company = c /\ g.year = e.year /\ g.figure = e.figure
         /\ g.value = Best(loadedFrom[c], LoaderNames[e.figure], e.year,
                          AnnualForm(loadedFrom[c]))
  /\ \A a \in answer.figures :
       a.value = Best(answer.file, FetcherNames[a.figure], a.year, WholeYear(answer.file))
  /\ answer # NoAnswer /\ loadedFrom[answer.company] = answer.file =>
       \A e \in ValidRecords(answer.file) :
         /\ SameEvidence(answer.file, e.figure, e.year) =>
              \A a \in answer.figures :
                a.year = e.year /\ a.figure = e.figure =>
                  \E g \in filings : /\ g.company = answer.company /\ g.year = a.year
                                     /\ g.figure = a.figure /\ g.value = a.value
         /\ (\A o \in ToSet(answer.file) : SameEvidence(answer.file, e.figure, o.year)) =>
              \E a \in answer.figures : a.year = e.year /\ a.figure = e.figure
=============================================================================
