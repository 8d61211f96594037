SPECIFICATION ZombieSpec
CONSTANTS
  Positions = {p1}
  Keys = {k1}
  Clients = {c1}
  Workers = {w1, w2}
  Quantity = 2
  MaxRetries = 0
  MaxAttempts = 2
  MaxNotFound = 2
  MaxOrders = 3
  Anomalies <- WorkerAnomalies
  None = None
  k1 = k1
  c1 = c1
  p1 = p1
  w1 = w1
  w2 = w2
CHECK_DEADLOCK FALSE
INVARIANTS
  OneWorkerPerRequest
  SubmissionsBounded
PROPERTIES
  NoRequestLost
