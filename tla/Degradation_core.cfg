SPECIFICATION MCSpec
CONSTANTS
  Breakers = {"market_data"}
  FailThreshold = 3
  BusCapacity = 2
  Reports = {"broker_disconnect", "db_write_fail"}
  Forceable = {"normal", "halt"}
  MaxPending = 2
  p = p
  q = q
  st = st
  Unset = Unset
  Whole = Whole
  Positions = {p, q}
  GStrategies = {st}
  GStrategyOf <- MCStrategyOf
  Values <- MCValues
  Limit = 40
  Windows <- MCWindows
  RateWindow = 0
  HardLimit = 48
  MaxStale = 0
  Impacts <- MCImpacts
  MaxTime = 2
  MaxChecks = 3
  MaxOrders = 1
INVARIANTS
  GateFollowsMode
  DegradationSound
  GreeksSound
