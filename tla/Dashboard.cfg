SPECIFICATION DashboardSpec
CONSTANTS
  s1 = s1
  s2 = s2
  Sats <- MCSats
  Lists <- MCLists
  Lives <- MCLives
  Demo <- MCDemo
  MaxLoads = 2
  MaxCompute = 2
  Planes = {"p1", "p2", "p3"}
  Callsigns = {"c1"}
  CallsignOf <- MCCallsignOf
  Regions = {"world", "point"}
  Vehicles = {"v1", "v2"}
  Followable = {"m1", "m2"}
  FreshFor = 0
  HiddenAfter = 1
  KeptFor = 2
  KeptSamples = 2
  Missions = {"demo", "other"}
  Example = "demo"
  BurnLeads = {0, 1, 2, 3}
  ExampleLead = 1
  MaxLead = 2
  Designs = {"d1"}
  DesignLead <- MCDesignLead
  Window = 0
  MaxDesigns = 1
  MaxEvents = 3
  Notes = {"", "x"}
  Archives <- MCArchives
  FeedOrder <- MCFeedOrder
  Published <- MCPublished
  BuiltIn <- MCBuiltIn
  Layers = {"ion", "night"}
  Maneuvers <- MCManeuvers
  Screened = {"companion"}
  Worlds <- MCWorlds
  EncounterWindow = 2
  StepSeconds = 3
  ScreeningDistance = 1
  MaxDeltaV = 2
  ConfiguredLead = 4
  Action = 1
  Goal = 0
  Half = 2
  Bisections = 2
  Infinity = 100
  Unpriced <- MCUnpriced
  GridLeads = {2, 3, 4, 5}
  LastLead = 5
  MaxSamples = 2
  Pairs = {"a", "b"}
  Objects = {1, 2}
  ObjectsOf <- MCObjectsOf
  NoPair = "none"
  Catalogs <- MCCatalogs
  MaxMinutes = 2
  Keys = {"k1", "k2"}
  Files <- MCFiles
  MaxReports = 2
  TrackEnd = 8
  MaxClock = 10
  HistoryOf <- MCHistory
  SnapWithin = 2
  FeedKps = {2, 6}
  FeedAges <- MCFeedAges
  OptionalLayers = {"aircraft", "rocket", "cameras"}
  LayerAges <- MCLayerAges
  WarningSamples <- MCWarnings
  MaxWarnings = 2
  WeatherSamples <- MCWeather
  MaxStamp = 2
  TrendLength = 2
  CatalogObjects = {1, 2, 3}
  Filters <- MCFilters
  RowsPerPage = 1
  FoundAtMost = 2
CHECK_DEADLOCK FALSE
INVARIANTS DashboardTypeOK LabCoherent SessionSurvives MarkersAreTheirOwn ViewsCoherent
  AnalysisSound ReadoutsTruthful
PROPERTIES GlobeShowsNow ReviewLosesNothing NothingWaitsForever
