SPECIFICATION MCSpec
CHECK_DEADLOCK FALSE
CONSTANTS
  Symbols = {a, b}
  Strategies = {t1}
  StreamSize = 2
  MaxQuotes = 2
  Quantities = {1}
  MaxQuantity = 1
  MaxPositions = 1
  LossLimit = 0
  Drawdown = 10
  GreeksLimit = 1
  Equities = {80, 100}
  NoValue = NoValue
  Events = {e1, e2, e3}
  TierZero = {e1}
  Services = {s1, s2}
  Workers = 2
  QueueSize = 1
  AuditAnomalies = {"fresh", "failure"}
  Genesis = Genesis
  Nobody = Nobody
  a = a
  b = b
  t1 = t1
  e1 = e1
  e2 = e2
  e3 = e3
  s1 = s1
  s2 = s2
INVARIANTS
  EngineFollowsRedis
  
  ChainSound
PROPERTIES
  QuotesGoForward
  TradingProceeds
