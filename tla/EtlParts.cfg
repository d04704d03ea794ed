SPECIFICATION PartsSpec
CONSTANTS
  MaxPower = 12
  PeerPowers = {6}
  Reviewer = {"anna", "ben"}
  MaxEvents = 3
  MaxLost = 1
  Organisation <- MCOrganisation
  Vat = {"v1"}
  NoVat = "no vat"
  Company = {"c1", "c2"}
  NoCompany = NoCompany
  NoName = "unnamed"
  MaxNotices = 2
  MaxAwards = 2
  Issuer = {"c1", "c2", "c3", "c4"}
  Ticker = {"GSK", "GSK.L", "XX.DE", "ABC", "FND"}
  Market <- MCMarket
  IsinsOf <- MCIsinsOf
  Placeholder <- MCPlaceholder
  BareOf <- MCBareOf
  SuffixOf <- MCSuffixOf
  NoSuffix = "none"
  Venues <- MCVenues
  NoIsin = "no isin"
  Unverified <- MCUnverified
  FigiBatch = 1
  FigiInflight = 2
  MaxFigiFaults = 2
  Isin = {"i1"}
  WindowDays = 1
  MaxDay = 4
  MaxFirdsFaults = 1
  Lei = {"a", "b", "c"}
  EntityFile = {"a"}
  LinkRecord <- MCLinkRecord
  MaxFileLinks = 2
  MaxFeedRuns = 2
  Dataset = {"gdp"}
  FileCodes = {"old"}
  MaxObservedYear = 3
  MaxRegions = 1
  MaxLoads = 2
  MaxStatsFailures = 1
  NoCodes = NoCodes
  MaxMonth = 2
  MaxWork = 2
  MaxVersion = 2
  MaxPublications = 2
  MaxMirrorFaults = 1
  Initiative = {"i1", "i2"}
  MaxAct = 3
  Communication = {3}
  RegistrationAct = {2}
  ActPage = 2
  MaxActVersion = 2
  MaxSpineFaults = 1
  NoAct = NoAct
  Registrant = {"r1", "r2"}
  EmitChunk = 1
  MaxRegisterVersion = 1
  MaxLobbyFaults = 1
  MaxLobbyRuns = 3
  MaxEntity = 1
  PageSizes = {1, 2}
  EmitBatch = 1
  MaxLinks = 1
  MaxRepairs = 2
  PubId = {"1-20"}
  OjsId = {"S 1"}
  KohesioId = {"q"}
  PubOf <- MCPubOf
  Tongue = {"en", "lt"}
  TitleWindow = 2
  MaxOldTitles = 1
  MaxTitleLog = 2
  MaxTitleFaults = 1
  Item = {1, 2}
  PurgePage = 2
  MaxPurgeLog = 1
  MaxPurgeRuns = 2
  EciPage = 1
  MaxInitiatives = 3
  MaxSupport = 1
  MaxEciRuns = 2
  MaxBatches = 3
  MaxPollFaults = 2
  BridgeClass = {"nuts", "rel-nuts-partof"}
  BridgePage = 1
  MaxBridgeRow = 2
  Blank = {2}
  BeforeCutoff = {}
  MaxBridgeRuns = 2
  MaxNeoChanges = 1
  Sanctionable = {"person", "firm", "fund", "entry"}
  ListedAs <- MCListedAs
  Unusable = "-"
  NoCountry = "no country"
  MaxListChanges = 2
  MaxSanctionRuns = 2
  MaxSinkRestarts = 1
  Cik = {"apple"}
  Figure = {"revenue", "income"}
  LoaderNames <- MCLoaderNames
  FetcherNames <- MCFetcherNames
  FactFiles <- MCFactFiles
  Junk = {9}
  SymbolOf <- MCSymbolOf
  EsefEntity <- MCEsefEntity
  EsefSummaries <- MCEsefSummaries
  KeptYears = 2
  LastYear = 2026
  MaxDownloads = 2
  MaxFilingRuns = 3
  Notice = {"n1", "n2", "n3"}
  KeyOf <- MCKeyOf
  Rank <- MCRank
  Firm = {1, 2}
  HasLei = {1}
  Namesake <- MCNamesake
  VatNumber = {"v", "w", "0"}
  JunkVat = {"0"}
  WinnerOf <- MCWinnerOf
  MoveBatch = 1
  MaxScriptRuns = 2
  Land = {"GR"}
  ProjectRow <- MCProjectRow
  NoText = "empty"
  NotAName = {"nan"}
  CohesionChunk = 1
  MaxCsvRows = 2
  MaxCohesionRuns = 2
  MaxCohesionFaults = 1
  Place = {1, 3}
  PlaceLabel <- MCPlaceLabel
  Labels <- MCLabels
  NutsCode <- MCNutsCode
  Alpha3 <- MCAlpha3
  PostCode <- MCPostCode
  NoPostCode <- MCNoPostCode
  PostCodeRow <- MCPostCodeRow
  NutsFile <- MCNutsFile
  LinkBatch = 1
  MaxMoves = 2
  MaxLinkRuns = 2
  MaxLinkFaults = 1
  NutsRegion <- MCNutsRegion
  RetiredCode <- MCRetired
  CodePlace <- MCCodePlace
  Tongues = {"en", "el"}
  NoLabel = NoLabel
  NameSources <- MCNameSources
  Spoken <- MCSpoken
  SearchText <- MCSearchText
  GraphFact <- MCGraphFact
  PageCompany = {1, 2, 3}
  Buyer = {11, 12}
  CompanyName <- MCCompanyName
  Unnamed = {}
  Separator = {" ", "&"}
  ListQuery <- MCListQuery
  SearchFor <- MCSearchFor
  NoKey = "no key"
  PublicationForm = {"1-2024"}
  SiblingLimit = 1
  LookupCache = 1
  LinkQuery = {1}
  Thread = {"t1", "t2"}
  SchemaLang = {"cypher", "sparql"}
  SchemaTtl = 1
  QueryText <- MCQueryText
  RowCap = 1
  MaxTick = 1
  MaxSchema = 1
  MaxSchemaFaults = 1
  Job = {"cron", "backfill"}
  Deadline <- MCDeadline
  Retries = 1
  HandsOver = {"cron"}
  DefaultDeadline = 2
  StuckAfter = 3
  Check = {"spine", "key"}
  Blocking = {"key"}
  Presence = {"key"}
  Unwired = {}
  MaxHour = 4
  MaxRuns = 3
  MaxMissed = 1
  MaxHistory = 3
  MaxDrift = 2
INVARIANTS
  StatedValueIsSane AwardsAreAttributed QueueMatchesLog
  LinksMaterialise DerivedIsCurrent SettlesAtLast
  SweepIsComplete GraphFollowsRegister
  GraphShowsStated SnapshotIsWhole EveryBatchIsFolded
  BridgeKeepsParity SanctionsFollowTheList ReadersAgree AwardsSurvive CohesionLinksHold
  EverybodyIsSomewhere NamesAreFound
  PagesAgree OperatorsAreTold
PROPERTIES
  TickersSettle LoadedIsWhole
  RebuildIsSafe KeepsLastCopy StudioIsSound
CHECK_DEADLOCK FALSE
