SPECIFICATION MCSpec
CONSTANTS
  Orders = {o1, o2}
  Sells = {o2}
  Quantity = 2
  MaxOpen = 2
  Anomalies = {"early", "ambiguous", "failure", "crash"}
  None = None
  o1 = o1
  o2 = o2
  p = p
  Keys <- MCKeys
  Events <- MCEvents
  FailedKey <- MCFailedKey
  RecoveryKeys = {}
  Emitters = {e1, e2}
  Checkers = {c1, c2}
  Workers = {w1, w2}
  QueueSize = 1
  MaxRetries = 2
  MaxCalls = 2
  MaxFailures = 1
  Absent = Absent
  OptionPositions = {p}
  Thresholds = {1}
  WarningDays = 1
  FirstDay = 1
  Job = e2
SYMMETRY Alike
CHECK_DEADLOCK FALSE
INVARIANTS
  OrdersSound
  AlertsSound
  
PROPERTIES
  ImplementsLedger
  RowsGoForward
