SPECIFICATION PlatformSpec
CONSTANTS
  a1 = a1
  a2 = a2
  b1 = b1
  b2 = b2
  r1 = r1
  an = an
  ad = ad
  s1 = s1
  c1 = c1
  c2 = c2
  NoOne = NoOne
  Admin = ad
  Regions <- SomeRegions
  Products <- Pair
  Ingestible <- Pair
  People <- ThePeople
  Sweepers = {s1}
  Callers <- OtherPair
  SearchLimit = 1
  Retention = 1
  FirstLookback = 1
  ManualLookback = 0
  DetsPerScene = 2
  MaxNow = 3
  MaxTicks = 2
  MaxAdopts = 3
  MaxBreaks = 1
  MaxEvents = 4
  Tabs <- Pair
  Queries <- OtherPair
  MaxExpiries = 2
  MaxCalls = 2
  MaxLogins = 1
  MaxLosses = 1
  MaxLogouts = 1
  chief = chief
  f1 = f1
  Accounts = {chief, a1, a2}
  Sweeper = sweeper
  Named <- Pair
  Granted = {"viewer"}
  Chief = chief
  Folders = {f1}
  Requests <- OtherPair
  Instants = {1, 2}
  MaxSpan = 1
  MaxNotes = 1
  MaxCaseSteps = 3
  MaxCasesMishaps = 1
  NoRaster = NoRaster
  Rasters <- IntakeRasters
  Slots = {c1, c2}
  BegunSlots = {c1}
  Today = 1000
  Tomorrow = 1050
  FirstSar = 50
  Lead = 24
  Trail = 6
  Day = 24
  Agreeing = 5
  Typeable = {450}
  MaxIntakeSteps = 3
  MaxDelay = 1
  api = api
  worker = worker
  rd1 = rd1
  Apis = {api}
  Importers = {worker}
  Imports <- OtherPair
  Readers = {rd1}
  File <- AisFile
  Slices <- AisSlices
  Box <- AisBox
  Polygon <- AisPolygon
  BatchSize = 2
  MaxGap = 1
  MaxSpeed = 1
  MinPoints = 2
  LowSampling = 1
  FewVesselsHeld = 2
  Zone <- AisZone
  Release <- AisRelease
  Steps = 2
  Ttl = 1
  MaxEntries = 1
  MaxMinutes = 2
  MaxImports = 3
  MaxReads = 2
  MaxAisEvents = 3
  MaxDeaths = 1
  NoCase = NoCase
  Cases <- Pair
  MaxSteps = 3
  MaxFetches = 1
  ReportSections = {"SUMMARY", "UNCERTAINTY"}
  Mandatory = {"UNCERTAINTY"}
  Printers <- Pair
  Attempts = 2
  MaxVersions = 2
  MaxRequests = 2
  MaxMishaps = 1
  MaxReportSteps = 3
  Slicks = {slick1, slick2}
  Tiers = {"STRONG", "INSUFFICIENT_EVIDENCE"}
  MaxRecomputes = 1
  MaxListed = 2
  Grids <- SeaGrids
  Beginnings = {3}
  SlickAges = {10, 100}
  ObservedAt = 1000
  EarlierScenes = {900, 995}
  DriftSteps = 2
  Deadline = 2
  Retries = 2
  Ceiling = 9
  MaxAsks = 2
  Fields <- SomeFields
  Settings <- SomeSettings
  MinMeasured = 6
  WinShare = 90
  MaxDraws = 2
  FoundSets <- SomeFinds
  Categories = {"LOW_WIND", "DUPLICATE"}
  AreaDrawn <- DrawnAreas
  AutoArea = 10
  AutoSure = 75
  AutoSafe = 20
  AutoRisky = 60
  AutoUnsure = 35
  AutoDoubtful = 40
  Eligible = 150
  PerScene = 2
  Enough = 1
  MaxReviewed = 2
  Holdings <- SomeHoldings
  Area <- WestToEast
  Searches <- SomeSearches
  BrowserSearch <- BrowserAsks
  DemoSearch <- DemoAsks
  Runners <- Pair
  FaultsMet = {"TIMEOUT"}
  PageLimit = 2
  MaxOpened = 1
  MaxSearched = 2
  GridRows = 4
  GridCols = 10
  Images <- SomeImages
  Winds = {10, 999}
  Buffers = {0, 1}
  BrightDb <- SeaTop
  BrightClose = 1
  BrightGrow = 1
  OpenBy = 1
  CloseBy = 1
  ContrastDb = 3
  CoarseStep = 4
  MedianHalf = 1
  MinSea = 6
  MinPixels = 4
  Part3 <- SomeTiles
  Unpackings <- SomeUnpackings
  Guesses <- SomeGuesses
  Ious = {0, 50}
  Epochs = 2
  Rungs <- SomeRungs
  MinOilIou = 20
  MaxLookAlikeFp = 100
  MaxOrders <- SomeOrders
  Exercised = {"evaluation", "detector", "catalogue", "desk", "discover", "sessions", "cases", "intake", "ais", "workspace", "reports", "text", "backtrack", "evidence"}
SYMMETRY PlatformSymmetry
CONSTRAINT FewFinds
CONSTRAINT FewJobs
CONSTRAINT SweepOrIngest
INVARIANTS
  PlatformTypeOK
  DiscoverIsHonest
  NoFalseTheft
  LogoutEndsSession
  CasesAreKept
  IntakeIsHonest
  ArchiveIsExact
  WorkspaceIsCurrent
  ReviewIsKept
  BacktrackIsHonest
  ServedIsCurrent
  BriefAgreesWithDossier
  FindingsHold
CHECK_DEADLOCK FALSE
