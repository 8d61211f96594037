SPECIFICATION MCSpec
CONSTANTS
  Symbols = {"A"}
  RuleDirs <- MCRuleDirs
  HypDirs <- MCHypDirs
  NewRules <- MCNewRules
  Readers = {r1, r2}
  TTL = 2
  MaxEdits = 2
  MaxInvalidations = 1
  Anomalies = {}
  Broken = Broken
  Missing = Missing
  None = None
  Metrics = {"portfolio_volatility", "max_drawdown"}
  Values = {0, 1, 2}
  Watched <- MCWatched
  Factors = {"f1"}
  FailureRules <- MCFailureRules
  Checkers = {k1, k2}
  Handlers = {d1}
  Thresholds <- MCThresholds
  MaxRuns = 2
  NoValue = NoValue
  Universes <- MCUniverses
  FilterSets <- MCFilterSets
  PoolRequests <- MCPoolRequests
  Opens = {2400, 4800}
  Closes = {2400, 4800}
  Quantities = {1, 2}
  FactorNames = {m, b}
  Weighted = {m}
  FactorSets = {{b}, {m, b}}
  Warmup = 1
  Bars = 4
  Capital = 7450
  Commission = 12
  SlippageParts = 20
  Nothing = Nothing
  TSymbols = {"A", "B"}
  Lookback = 1
  ICLookback = 3
  ICPeriods = 1
  Slack = 1
  Interval = 2
  MinPeriods = 2
  WindowSize = 3
  Sizes = {1, 2}
  TBars = 10
  MaxStarts = 1
  Rows = {9, 10, 11, 20, 90}
  Percents <- MCPercents
  Performances <- MCPerformances
  MaxDegradation = 30
  StabilityThreshold = 25
  Labels = {l1, l2}
  Futures = {"ESH", "ESZ", "CLZ"}
  RootOf <- MCRootOf
  ExpiryOf <- MCExpiryOf
  MonthOf <- MCMonthOf
  FileDays <- MCFileDays
  FileStrategy <- MCFileStrategy
  DefaultDays = 1
  DefaultStrategy = "calendar_spread"
  LastDay = 4
  Strikes = {2, 3}
  Prices = {1, 2, 3, 4}
  Contracts = {0, 1, 2}
  Multiplier = 100
INVARIANTS
  PlansFollowFile
CHECK_DEADLOCK FALSE
