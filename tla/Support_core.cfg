SPECIFICATION MCSpec
CONSTANTS
  None = None
  Tasks = {t1, t2}
  Roles = {"analyst", "risk_controller"}
  Permitted = {"analyst"}
  Keys = {"risk_bias", "sentiment"}
  Grants <- MCGrants
  Biases = {60, 150}
  VixLevels = {14, 15, 29, 40}
  Drawdowns <- MCDrawdowns
  Fills = {"f1", "f2", "late"}
  Foreign = {"hand", "fee"}
  SymbolOf <- MCSymbolOf
  StrategyOf <- MCStrategyOf
  StartCash = 100
  CashTolerance = 1
  EquityTolerance = 0
  MaxFailures = 1
  Irregular = {}
  Entries = {"a1", "a2", "b", "c"}
  KeyOf <- MCKeyOf
  SizeOf <- MCSizeOf
  MaxEntries = 2
  MaxBytes = 4
  MaxCrashes = 2
  MaxOffers = 3
  Requests = {q1, q2}
  Pinging = {"redis"}
  Reading = {"market_data"}
  MaxEvents = 3
  Critical = {1}
  Handlers = {h1, h2}
  Capacity = 2
  Fallback = TRUE
  MaxStarts = 2
  NoValue = NoValue
  Accounts = {"acc1", "acc2"}
  Books <- MCBooks
  LimitSets <- MCLimitSets
  Shocks = {r1}
  ShockLists <- MCShockLists
  Bad = Bad
  AckCalls = {k1, k2, k3}
  AlertIds = {i1, i2}
  Times = {0, 59, 60, 299, 3600, 86400}
  HistoryWindows = {"1h", "4h", "1d", "7d"}
  Rows = 3
  Callers = {c1, c2, c3}
  NoResponse = NoResponse
  TTL = 1
  MaxHours = 3
CHECK_DEADLOCK FALSE
INVARIANTS
  AgentsSound
  
  BufferSound
  HealthSound
  BusSound
  AnswersSound
PROPERTIES
  SupportProceeds
