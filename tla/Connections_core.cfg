SPECIFICATION MCSpec
CONSTANTS
  BOrders = {"o1", "o2"}
  Lots <- MCLots
  MaxOpen = 1
  MaxTries = 2
  MaxAttempts = 2
  MaxOutages = 1
  Starts = {a1, a2}
  StopCalls = {z1, z2}
  Nowhere = Nowhere
  Threads = {t1, t2}
  MaxRetries = 3
  MaxBackoff = 4
  MaxResets = 1
  Sockets = {s1, s2}
  Broadcasts = {b1, b2}
  VolOptions = {"call", "put"}
  Queries = {q1}
  OptionTTL = 1
  UnderlyingTTL = 2
  MaxAge = 3
CHECK_DEADLOCK FALSE
INVARIANTS
  BrokersSound
  RunsSound
  FeedSound
  FutuSound
PROPERTIES
  ConnectionsProceed
