SPECIFICATION FairSpec
CONSTANTS
  Positions = {p1}
  Keys = {k1, k2}
  Clients = {c1, c2}
  Workers = {w1}
  Quantity = 2
  MaxRetries = 1
  MaxAttempts = 2
  MaxNotFound = 2
  MaxOrders = 2
  Anomalies <- Ordinary
  None = None
  k1 = k1
  k2 = k2
  c1 = c1
  c2 = c2
  p1 = p1
  w1 = w1
CHECK_DEADLOCK FALSE
INVARIANTS
  StatusAgreement
  NeverOversell
PROPERTIES
  ImplementsLifecycle
  FlowSettles
