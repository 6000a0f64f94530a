SPECIFICATION FairSpec
CONSTANTS
  c1 = c1
  k1 = k1
  Connectors = {c1}
  Closers = {k1}
  Requests = {}
  MaxSessions = 1
  InitialDelay = 1
  MaxDelay = 1
  Reconnect = TRUE
  AckMessages = TRUE
  Heartbeat = TRUE
PROPERTIES
  WaitersSeeClose
  CloseReturns
  PingsEnd
  RedialsAfterLoss
CHECK_DEADLOCK FALSE
