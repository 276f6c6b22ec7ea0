SPECIFICATION GraphSpec
CONSTANTS
  day = day
  month = month
  UNPARTITIONED = UNPARTITIONED
  Tables <- MCTables
  Sinks <- MCSinks
  Regulatory = {5}
  Links <- MCLinks
  Batches <- MCBatches
  Catalogs <- MCCatalogs
  MaxEdges = 3
  Estates <- MCEstates
  Purposes = {"training", "fraud"}
  Training = "training"
  Scopes <- MCScopes
  Never = Never
  Residencies <- MCResidencies
  RegionOf <- MCRegionOf
  NoRegion = ""
  LastHour = 2
  Corpora <- MCEstates
  Licences <- MCLicences
  Columns = {1, 2, 3, 4, 5}
  ColumnMaps <- MCColumnMaps
  MaxColumnDepth = 2
  Warehouse <- MCWarehouse
  Measured1 <- MCMeasured1
  PartitionsOf <- MCPartitionsOf
  PricedPlans <- MCPricedPlans
  Amounts = {0, 9}
  ChargedTo = {0, 2}
  MinPeriods = 2
  TolerancePercent = 20
  MaxBills = 2
  MaxPriced = 2
  MaxCalibrations = 2
  LastBillingDay = 2
  Readable <- MCReadable
  Principals = {"ann", "etl"}
  Scheduled = {"etl"}
  ReadWindow = 1
  Costs = {1, 5}
  Threshold = 5
  MaxReads = 2
  MaxRuns = 1
  LastDate = 2
  Stories <- MCStories
  Baselines <- MCBaselines
  AttributionDepth = 6
  Drifts = {"error", "info"}
  Findings <- MCFindings
  Routes <- MCRoutes
  QuietStart = 5
  QuietEnd = 1
  Override = 3
  Window = 2
  HoursPerDay = 6
  EscalateAfter = 2
  LastMoment = 7
  MaxFirings = 3
  Symptoms <- MCSymptoms
  Above <- MCAbove
  CorrelationWindow = 1
  NoInstant <- MCNoInstant
  LastTime = 5
  MaxSymptoms = 3
  Pipelines <- MCPipelines
  MaxAge = 1
  Interval = 2
  LastInstant = 3
  Periods = {1, 2, 3}
  Slices = {"eu", "us"}
  ANY = "*"
  Digests = {"a", "b"}
  NoDigest = ""
  Tolerance = 0
  Limit = 2
  MaxArrivals = 3
  LastPeriod = 3
  JoinKeys = {1, 2, 3}
  NullKey = 0
  UniqueTolerance = 150
  FanOutTolerance = 25
  MaxRows = 3
  BucketChoices <- MCBuckets
  Labels1 = {"ok", "failed"}
  Durations = {1, 3, 9}
  SpanTrees <- MCSpanTrees
  MaxObserved = 2
INVARIANTS
  WalksReachEverything
  OrdersAndNoticesAreComplete
  RestrictionsReachDown
  FiguresAreModest
  AlertsLoseNothing
  WhatIsReportedIsTrue
PROPERTIES
  CalibrationSettles
CHECK_DEADLOCK FALSE
