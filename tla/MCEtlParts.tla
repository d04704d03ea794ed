------------------------------ MODULE MCEtlParts -------------------------------
(***************************************************************************)
(* The jobs of the ETL that share no state with each other, side by side   *)
(* for model checking: a behaviour is that of one of them, "part", while   *)
(* the variables of the others stand still at a state of theirs.           *)
(***************************************************************************)
EXTENDS ContractValue, ValueReview, TedSuppliers, OpenFigi, Firds, Gleif,
        StatsStore, CellarMirror, LegalActs, EuLobbying, RebuildCompanies, TitleLang,
        PurgeSubjects, EciRegister, WikidataMetrics, GraphBridge, Sanctions,
        CompanyFilings, GraphRepairs, Cohesion, NutsLinks, NutsNames,
        ContractPages, QueryStudio, RunMonitor

(* Values that a cfg cannot write.                                        *)

\* Two notices' organisations: a company under two names with one VAT number,
\* written in two ways, a link in the place of a name, and no name.
Org(n, s, l, v, w) ==
  [name |-> n, signals |-> s, legalForm |-> l, phrase |-> TRUE, vat |-> v, written |-> w]
MCOrganisation ==
  {Org("acme", {}, TRUE, "v1", "vat"), Org("acme (annex)", {"annex"}, TRUE, "v1", "bare"),
   Org("http", {"scheme", "na"}, TRUE, NoVat, "unusable"),
   Org(NoName, {}, FALSE, NoVat, "unusable")}

MCMarket ==
  {[isin |-> "I1", ticker |-> "GSK", exch |-> "LN", class |-> "company"],
   [isin |-> "I2", ticker |-> "FND", exch |-> "LN", class |-> "fund"],
   [isin |-> "I3", ticker |-> "ABC", exch |-> "GY", class |-> "company"]}
MCIsinsOf ==
  [c \in Issuer |-> CASE c = "c1" -> {"I1", "I2"} [] c = "c2" -> {"I3"} [] OTHER -> {}]
MCBareOf ==
  [t \in Ticker |-> CASE t = "GSK.L" -> "GSK" [] t = "XX.DE" -> "XX" [] OTHER -> t]
MCSuffixOf ==
  [t \in Ticker |-> CASE t = "GSK.L" -> "L" [] t = "XX.DE" -> "DE" [] OTHER -> NoSuffix]
MCVenues == [x \in {"LN", "GY"} |-> IF x = "LN" THEN {"LN", "L"} ELSE {"GY", "DE"}]
MCPlaceholder == {[issuer |-> "c3", isin |-> "I3"]}
MCUnverified == {<<"c1", "GSK.L">>, <<"c1", "XX.DE">>, <<"c2", "XX.DE">>}

Link(c, p, t, s) == [child |-> c, parent |-> p, type |-> t, status |-> s]
MCLinkRecord ==
  {Link("a", "b", "IS_DIRECTLY_CONSOLIDATED_BY", "ACTIVE"),
   Link("a", "b", "IS_ULTIMATELY_CONSOLIDATED_BY", "ACTIVE"),
   Link("b", "c", "IS_DIRECTLY_CONSOLIDATED_BY", "ACTIVE"),
   Link("b", "b", "IS_DIRECTLY_CONSOLIDATED_BY", "ACTIVE"),
   Link("c", "a", "IS_DIRECTLY_CONSOLIDATED_BY", "INACTIVE")}

MCPubOf == [i \in OjsId |-> "1-20"]

\* A firm listed under an acronym and its name, whose country is that of its
\* address, a fund of no country, and an entry without an id.
MCListedAs ==
  [s \in Sanctionable |->
     [reference |-> s # "entry", person |-> s = "person",
      names |-> IF s = "firm" THEN <<"-", "AMD", "Aran Modern Devices", "AMD">> ELSE <<s>>,
      countries |-> IF s = "firm" THEN <<NoCountry, "RUS">> ELSE <<NoCountry>>]]

\* Two readers that rank the concepts of revenue differently, and files with a
\* restated year, a new concept, a quarter, a part of a year, junk and a typo of a year.
MCLoaderNames ==
  [f \in Figure |-> IF f = "revenue" THEN <<"contract", "revenues">> ELSE <<"net", "profit">>]
MCFetcherNames ==
  [f \in Figure |-> IF f = "revenue" THEN <<"revenues", "contract">> ELSE <<"net", "profit">>]
Fact(c, annual, whole, y, v) ==
  [concept |-> c, annual |-> annual, wholeYear |-> whole, year |-> y, value |-> v]
MCFactFiles ==
  {<<>>,
   <<Fact("net", TRUE, TRUE, 2024, 1), Fact("profit", TRUE, TRUE, 2024, 2),
     Fact("revenues", TRUE, TRUE, 2025, 4)>>,
   <<Fact("net", TRUE, TRUE, 2024, 1), Fact("net", TRUE, TRUE, 2024, 3),
     Fact("contract", TRUE, TRUE, 2024, 5), Fact("revenues", TRUE, TRUE, 2024, 6),
     Fact("profit", TRUE, TRUE, 2025, 9)>>,
   <<Fact("profit", TRUE, TRUE, 2023, 2), Fact("net", TRUE, FALSE, 2024, 1),
     Fact("net", FALSE, TRUE, 2025, 2), Fact("profit", TRUE, TRUE, 2113, 1)>>}
MCSymbolOf == [c \in Cik |-> "AAPL"]
MCEsefEntity ==
  {[lei |-> TRUE, company |-> "sap", ticker |-> "AAPL", isin |-> TRUE],
   [lei |-> FALSE, company |-> "shop", ticker |-> "S", isin |-> FALSE]}
MCEsefSummaries ==
  {<<>>, <<[lei |-> TRUE, company |-> "sap", year |-> 2024, value |-> 1],
           [lei |-> TRUE, company |-> "sap", year |-> 2024, value |-> 2]>>}

\* Two notices of one contract and one of another; two companies of one name.
MCKeyOf == [n \in Notice |-> IF n = "n3" THEN "n3" ELSE "k"]
MCRank == [n \in Notice |-> IF n = "n1" THEN 2 ELSE 1]
MCWinnerOf == [n \in Notice |-> IF n = "n1" THEN 1 ELSE 2]
MCNamesake == {<<1, 2>>}

\* A project of a named beneficiary, two whose name is the literal "nan", and one
\* from before the cutoff.
CsvRow(p, n, b, g, d) ==
  [project |-> p, name |-> n, beneficiary |-> b, programme |-> g, dated |-> d]
MCProjectRow ==
  {CsvRow("Q1", "acme", "Q8", "erdf", TRUE), CsvRow("Q2", "nan", "Q9", NoText, TRUE),
   CsvRow("Q3", "nan", "Q8", "erdf", TRUE), CsvRow("Q4", NoText, NoText, "erdf", FALSE)}

\* A company and a lobbyist of a country with two regions of level 3; of one
\* postcode the table has two rows, another is written in two ways.
MCPlaceLabel == [e \in Place |-> IF e = 3 THEN "Lobbyist" ELSE "Company"]
MCLabels == <<"Company", "Lobbyist">>
MCNutsCode ==
  {<<"EL">>, <<"EL", "3">>, <<"EL", "3", "0">>, <<"EL", "3", "0", "3">>, <<"EL", "3", "0", "4">>}
MCAlpha3 == [a \in {"EL"} |-> "GRC"]
Written(n, s) == [norm |-> n, squeezed |-> s]
MCPostCode == {Written("1055", "10-55"), Written("1066", "1066")}
MCNoPostCode == Written("", "")
MCPostCodeRow ==
  <<<<<<"EL", "3", "0", "3">>, Written("1055", "1055")>>,
    <<<<"EL", "3", "0", "3">>, Written("1066", "1066")>>,
    <<<<"EL", "3", "0", "4">>, Written("1066", "1066")>>>>
MCNutsFile == {<<"EL">>, <<"EL", "3", "0", "3">>}

\* A country, its only region and the only region of that, and two retired codes:
\* each replaced in turn, or both at once.
Spelt(t, c) == [letters |-> t, clean |-> c]
Whole == <<"e">>
Half == <<"e", "3">>
Part == <<"e", "3", "0">>
Old == <<"e", "x">>
Older == <<"e", "y">>
MCNutsRegion == {Whole, Half, Part}
MCRetired == {Old, Older}
InEnglish(n) == [l \in Tongues |-> IF l = "en" THEN n ELSE NoLabel]
MCNameSources ==
  {[native |-> [c \in MCNutsRegion |->
       CASE c = Whole -> Spelt(<<"h">>, TRUE)
         [] c = Half -> Spelt(<<"a", "t">>, FALSE)
         [] c = Part -> Spelt(<<"n", " ", "a">>, TRUE)],
    latn |-> [c \in MCNutsRegion |->
       CASE c = Whole -> Spelt(<<"h", "l">>, TRUE)
         [] c = Half -> Spelt(<<"a", "k">>, TRUE)
         [] c = Part -> Spelt(<<"n", " ", "a">>, TRUE)],
    labels |-> [c \in AnyCode |->
       InEnglish(IF c \in who THEN Spelt(c \o <<"c">>, TRUE) ELSE NoLabel)],
    aliases |-> [c \in AnyCode |-> IF c = Older THEN older ELSE {}],
    official |-> [c \in {Whole} |-> InEnglish(of)],
    metro |-> [c \in AnyCode |-> IF c = Part THEN Spelt(<<"a">>, TRUE) ELSE NoLabel],
    replaces |-> before] :
     who \in SUBSET {Half, Older}, older \in {{}, {Spelt(<<"y", "l">>, FALSE)}},
     of \in {NoLabel, Spelt(<<"g">>, TRUE)},
     before \in {[c \in AnyCode |-> CASE c = Half -> {Old} [] c = Old -> {Older}
                                      [] c = Older -> {Old} [] OTHER -> {}],
                 [c \in AnyCode |-> IF c = Half THEN {Old, Older} ELSE {}]}}
MCCodePlace == [c \in MCNutsRegion |-> Len(c)]
MCSpoken == [c \in {"e"} |-> "el"]
MCSearchText == {<<"a">>, <<"e", "3">>, <<"c">>}

\* A contract with a first notice and a newer one that names another buyer and another
\* winner and states no value, and one of the same framework that discloses no supplier;
\* three records of one company, of which one is listed and one is granted money.
Award(i, k, d, w, bs, ws, number) ==
  [kind |-> "notice", id |-> i, contract |-> k, date |-> d, worth |-> w, doubtful |-> w = 7,
   framework |-> "1-2024", buyers |-> bs, winners |-> ws,
   withheld |-> IF ws = {} THEN <<"see website", "">> ELSE <<>>,
   rules |-> IF ws = {} THEN <<"notice_text">> ELSE <<>>, number |-> number]
MCGraphFact ==
  {Award(1, "A", 1, 5, {11}, {1}, TRUE), Award(2, "A", 0, 0, {12}, {2}, TRUE),
   Award(3, "B", 2, 7, {11}, {}, FALSE),
   [kind |-> "merge", pair |-> {1, 3}], [kind |-> "merge", pair |-> {2, 3}],
   [kind |-> "listing", company |-> 2, ticker |-> <<"b">>],
   [kind |-> "grant", company |-> 1, project |-> 1],
   [kind |-> "title", contract |-> "A"]}
MCCompanyName ==
  [c \in 1..3 |-> CASE c = 1 -> <<"a", "b">> [] c = 2 -> <<"a", " ", "b">> [] c = 3 -> <<"n">>]
ListOf(side, x, sort, limit) == [side |-> side, of |-> x, sort |-> sort, limit |-> limit]
MCListQuery ==
  {ListOf("company", 1, "recent", 2), ListOf("company", 2, "value_asc", 1),
   ListOf("buyer", 11, "value_desc", 2), ListOf("buyer", 11, "oldest", 1),
   ListOf("grants", 1, "recent", 1)}
MCSearchFor ==
  {[q |-> <<"a">>, limit |-> 2], [q |-> <<"a", " ", "b">>, limit |-> 1],
   [q |-> <<"n">>, limit |-> 1]}

\* Every query of up to three signs, and those that a backslash or a backtick tells
\* apart.
MCQueryText ==
  [text : SeqOf(Sign, 3), lang : {"cypher"}]
  \union [text : SeqOf(Sign \ {"tick"}, 3), lang : {"sql"}]
  \union [text : {<<"quote", "slash", "quote", "word", "quote">>,
                  <<"quote", "slash", "quote", "blank", "word", "blank", "quote">>,
                  <<"quote", "slash", "quote", "quote", "word", "quote", "quote">>,
                  <<"quote", "slash", "quote", "word", "newline", "word">>,
                  <<"tick", "slash", "tick", "word">>,
                  <<"line", "quote", "newline", "word", "quote">>,
                  <<"open", "line", "close", "word">>}, lang : {"cypher"}]

\* A CronJob, and a Job that may run for longer than the reaper's default.
MCDeadline == [j \in Job |-> IF j = "cron" THEN 1 ELSE 3]

----------------------------------------------------------------------------
(* The composition.                                                        *)

VARIABLE part  \* the job that runs

\* What no value rule looks at takes one value: the fingerprint of embedded cents
\* where the gateway leaks anyway or no ratio shows a leak, the watermark where
\* there are no peers.
ToldApart(f) ==
  /\ f.cents # "none" => f.country # "PRT" /\ RatioTier(f)
  /\ f.peers = Missing => ~f.placeholder

\* The variables of a job that does not run: its initial state, and one of them
\* where there are several.
ValueRests == facts = (CHOOSE f \in NoticeMoney : TRUE) /\ valued = Undecided
ReviewRests ==
  /\ events = <<>> /\ rendered = 0 /\ row = NoRow
  /\ loader = "idle" /\ backfill = "idle" /\ scaler = "idle"
  /\ desk = [r \in Reviewer |-> Away] /\ lost = 0 /\ unqueued = FALSE
SuppliersRest ==
  /\ awards = <<>> /\ resolved = <<>> /\ cache = [v \in {} |-> 0] /\ announced = {}
  /\ contract = NoContract /\ notices = 0 /\ idsOf = [v \in Vat |-> {}]
FigiRests ==
  /\ figiMode = "idle" /\ figiRows = {} /\ figiPool = {} /\ retiring = {}
  /\ isinOf = [t \in Ticker |-> NoIsin] /\ listedAs = {} /\ sameAs = {} /\ figiFaults = 0
FirdsRests ==
  /\ today = 1 /\ published = [d \in {1} |-> [i \in Isin |-> NoRecord]] /\ known = {}
  /\ night = "due" /\ files = <<>> /\ zips = {} /\ damaged = {}
  /\ listing = [i \in Isin |-> NoListing] /\ firdsFaults = 0
SpineRests ==
  /\ inMirror = [a \in Act |-> {}] /\ inGraph = [a \in Act |-> 0]
  /\ actLinks = {} /\ sweep = SweepIdle /\ spineFaults = 0
RebuildRests ==
  /\ node = [e \in Entities |-> "missing"] /\ subjects = [s \in Subject |-> {}]
  /\ rebuildLog = <<>> /\ repair = RepairIdle /\ linksAdded = 0 /\ repairsBegun = 0
TitlesRest ==
  /\ titleLog = <<>> /\ titleMap = [i \in PubId |-> NotMapped]
  /\ titleMark = [s \in {"events", "graph"} \X {"contract"} |-> 0]
  /\ shown = [i \in TitleId |-> Guess]
  /\ sinkAt = 0 /\ titleRun = TitleIdle /\ titleFaults = 0
PurgeRests ==
  /\ damage = "stranded" /\ holds = [s \in Item \X Side |-> "nothing"]
  /\ purgeLog = <<>> /\ purge = PurgeIdle /\ emitted = 0 /\ purgeRuns = 0
EciRests ==
  /\ search = <<>> /\ support = [i \in 1..MaxInitiatives |-> 0]
  /\ keptFiles = {} /\ petitions = NoCounts /\ series = NoCounts
  /\ eciRun = EciIdle /\ eciRuns = 0
BridgeRests ==
  /\ neo = [m \in BridgeClass |-> <<>>] /\ virtuoso = [g \in {GraphOf(m) : m \in BridgeClass} |-> {}]
  /\ bridge = BridgeIdle /\ parity = [m \in BridgeClass |-> {}]
  /\ bridgeRuns = 0 /\ neoChanges = 0
FilingsRest ==
  /\ factFile = [c \in Cik |-> NoFacts] /\ tickerMap = Cik
  /\ filings = {} /\ companies = {} /\ listed = {}
  /\ loadedFrom = [c \in Cik |-> NoFacts] /\ symbols = {} /\ answer = NoAnswer
  /\ downloads = 0 /\ filingRuns = 0
GraphRepairsRest ==
  /\ label = [n \in Notice |-> "absent"] /\ linked = {}
  /\ entity = [k \in Keys |-> "absent"] /\ taken = [k \in Keys |-> "none"]
  /\ noticeEdges = {} /\ entityEdges = {}
  /\ firms = Firm /\ vats = [f \in Firm |-> {}]
  /\ wonBy = [n \in Notice |-> WinnerOf[n]] /\ forReview = {}
  /\ migration = "idle" /\ dedup = {} /\ scriptRuns = 0
CohesionRests ==
  /\ csv = [l \in Land |-> <<>>]
  /\ programmes = {} /\ beneficiaries = {} /\ filedBy = {} /\ underProgramme = {}
  /\ disclosed = <<>>
  /\ cohesionRun = CohesionIdle /\ cohesionRuns = 0 /\ cohesionFaults = 0

NutsRests ==
  /\ nutsNodes = {} /\ withCountry = {} /\ nutsPartOf = {}
  /\ address = [e \in Place |-> NoAddress] /\ located = {}
  /\ nutsSync = {} /\ linker = LinkerIdle /\ postal = -1 /\ postalRows = {}
  /\ moved = {} /\ moves = 0 /\ linkRuns = 0 /\ linkFaults = 0
NamesRest ==
  /\ sources = (CHOOSE s \in NameSources : TRUE)
  /\ gazetteer = NoArtifact /\ loaded = NoArtifact /\ response = NoAnswerYet

PartsInit ==
  /\ part \in {"value", "review", "suppliers", "figi", "firds", "gleif", "store",
               "cellar", "spine", "lobby", "rebuild", "titles", "purge", "eci", "metrics",
               "bridge", "sanctions", "filings", "repairs", "cohesion", "nuts", "names",
               "pages", "queries", "schemas", "runs", "checks"}
  /\ IF part = "review" THEN ReviewInit ELSE ReviewRests
  /\ IF part = "suppliers" THEN SuppliersInit ELSE SuppliersRest
  /\ IF part = "figi" THEN FigiInit ELSE FigiRests
  /\ IF part = "firds" THEN FirdsInit ELSE FirdsRests
  /\ IF part = "spine" THEN SpineInit ELSE SpineRests
  /\ IF part = "rebuild" THEN RebuildInit ELSE RebuildRests
  /\ IF part = "titles" THEN TitleInit ELSE TitlesRest
  /\ IF part = "purge" THEN PurgeInit ELSE PurgeRests
  /\ IF part = "eci" THEN EciInit ELSE EciRests
  /\ IF part = "bridge" THEN BridgeInit ELSE BridgeRests
  /\ IF part = "filings" THEN FilingsInit ELSE FilingsRest
  /\ IF part = "repairs" THEN GraphRepairsInit ELSE GraphRepairsRest
  /\ IF part = "cohesion" THEN CohesionInit ELSE CohesionRests
  /\ IF part = "nuts" THEN NutsInit ELSE NutsRests
  /\ IF part = "names" THEN NamesInit ELSE NamesRest
  /\ SanctionsInit
  /\ GleifInit /\ StoreInit /\ MirrorInit /\ LobbyInit /\ MetricsInit /\ PagesInit
  /\ StudioInit /\ RunsInit /\ ChecksInit
  /\ IF part = "value" THEN ValueInit /\ ToldApart(facts) ELSE ValueRests

\* The other jobs stand still.
RestOf(here) ==
  /\ part = here /\ UNCHANGED part
  /\ here # "value" => UNCHANGED valueVars
  /\ here # "review" => UNCHANGED reviewVars
  /\ here # "suppliers" => UNCHANGED supplierVars
  /\ here # "figi" => UNCHANGED figiVars
  /\ here # "firds" => UNCHANGED firdsVars
  /\ here # "gleif" => UNCHANGED gleifVars
  /\ here # "store" => UNCHANGED storeVars
  /\ here # "cellar" => UNCHANGED mirrorVars
  /\ here # "spine" => UNCHANGED spineVars
  /\ here # "lobby" => UNCHANGED lobbyVars
  /\ here # "rebuild" => UNCHANGED rebuildVars
  /\ here # "titles" => UNCHANGED titleVars
  /\ here # "purge" => UNCHANGED purgeVars
  /\ here # "eci" => UNCHANGED eciVars
  /\ here # "metrics" => UNCHANGED metricsVars
  /\ here # "bridge" => UNCHANGED bridgeVars
  /\ here # "sanctions" => UNCHANGED sanctionVars
  /\ here # "filings" => UNCHANGED filingVars
  /\ here # "repairs" => UNCHANGED graphRepairVars
  /\ here # "cohesion" => UNCHANGED cohesionVars
  /\ here # "nuts" => UNCHANGED nutsVars
  /\ here # "names" => UNCHANGED namesVars
  /\ here # "pages" => UNCHANGED pageVars
  /\ here \notin {"queries", "schemas"} => UNCHANGED studioVars
  /\ here # "runs" => UNCHANGED runVars
  /\ here # "checks" => UNCHANGED checkVars

\* Only in the newest year may a dataset have regions of which none has a value.
OldYearsHaveValues ==
  \A d \in Dataset, y \in ObservedYear : observed[d][y] = 0 => y = MaxObservedYear

\* Only the last act may be amended, once the mirror has its first version.
LastActIsAmended == \A a \in Act : 2 \in inMirror[a] => a = MaxAct /\ 1 \in inMirror[a]

\* No row depends on those of another job, so a behaviour has those of one.
OneJob ==
  Cardinality({j \in Job : Active(j) \/ \E i \in DOMAIN etlRuns : etlRuns[i].job = j}) <= 1

\* Rows of a second pod and of another execution are seen of the CronJob.
BackfillHasOneRow == Len(etlRuns) > 1 => etlRuns[1].job = "cron"

PartsNext ==
  \/ RestOf("value") /\ ValueNext
  \/ RestOf("review") /\ ReviewNext
  \/ RestOf("suppliers") /\ SuppliersNext
  \/ RestOf("figi") /\ FigiNext
  \/ RestOf("firds") /\ FirdsNext
  \/ RestOf("gleif") /\ GleifNext
  \/ RestOf("store") /\ StoreNext /\ OldYearsHaveValues'
  \/ RestOf("cellar") /\ MirrorNext
  \/ RestOf("spine") /\ SpineNext /\ LastActIsAmended'
  \/ RestOf("lobby") /\ LobbyNext
  \/ RestOf("rebuild") /\ RebuildNext
  \/ RestOf("titles") /\ TitleNext
  \/ RestOf("purge") /\ PurgeNext
  \/ RestOf("eci") /\ EciNext
  \/ RestOf("metrics") /\ MetricsNext
  \/ RestOf("bridge") /\ BridgeNext
  \/ RestOf("sanctions") /\ SanctionsNext
  \/ RestOf("filings") /\ FilingsNext
  \/ RestOf("repairs") /\ GraphRepairsNext
  \/ RestOf("cohesion") /\ CohesionNext
  \/ RestOf("nuts") /\ NutsNext
  \/ RestOf("names") /\ NamesNext
  \/ RestOf("pages") /\ PagesNext
  \/ RestOf("queries") /\ QueriesNext
  \/ RestOf("schemas") /\ SchemasNext
  \/ RestOf("runs") /\ RunsNext /\ OneJob' /\ BackfillHasOneRow'
  \/ RestOf("checks") /\ ChecksNext

partsVars == <<part, valueVars, reviewVars, supplierVars, figiVars, firdsVars, gleifVars,
               storeVars, mirrorVars, spineVars, lobbyVars, rebuildVars, titleVars,
               purgeVars, eciVars, metricsVars, bridgeVars, sanctionVars, filingVars,
               graphRepairVars, cohesionVars, nutsVars, namesVars, pageVars, studioVars,
               monitorVars>>

PartsSpec == PartsInit /\ [][PartsNext]_partsVars
=============================================================================
