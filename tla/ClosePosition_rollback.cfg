SPECIFICATION Spec
CONSTANTS
  Positions = {p1}
  Keys = {k1}
  Clients = {c1}
  Workers = {w1}
  Quantity = 2
  MaxRetries = 0
  MaxAttempts = 2
  MaxNotFound = 2
  MaxOrders = 1
  Anomalies <- LateOrDeadWorker
  None = None
  k1 = k1
  c1 = c1
  p1 = p1
  w1 = w1
CHECK_DEADLOCK FALSE
INVARIANT OpenHasNoWorkingOrder
