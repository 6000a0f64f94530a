SPECIFICATION ResponsiveSpec
CONSTANTS
  c1 = c1
  k1 = k1
  r1 = r1
  Connectors = {c1}
  Closers = {k1}
  Requests = {r1}
  MaxSessions = 1
  InitialDelay = 1
  MaxDelay = 1
  Reconnect = FALSE
  AckMessages = FALSE
  Heartbeat = FALSE
PROPERTIES
  RequestsEndOnClose
  LostConnectionAnswers
  ConnectReturns
CHECK_DEADLOCK FALSE
