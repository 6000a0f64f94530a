SPECIFICATION ShapedSpec
CONSTANTS
  c1 = c1
  c2 = c2
  k1 = k1
  r1 = r1
  Connectors = {c1, c2}
  Closers = {k1}
  Requests = {r1}
  MaxSessions = 2
  InitialDelay = 1
  MaxDelay = 1
  Reconnect = TRUE
  AckMessages = TRUE
  Heartbeat = TRUE
INVARIANTS
  OneServingTask
  ConnectedIsWritable
  QuietAfterClose
  IInv
  NoStrandedRequest
  PendingHasOwner
  NoLostWakeup
PROPERTIES
  EventsAlternate
  ImplementsCalls
SYMMETRY Symmetry
CHECK_DEADLOCK FALSE
