SPECIFICATION MCSpec
CONSTANTS
  d1 = d1
  d2 = d2
  d3 = d3
  Data = {d1, d2, d3}
  Modes = {"BestEffort", "AtLeastOnce", "ReliableOrdered"}
  Window = 2
  MaxRetransmits = 1
INVARIANTS
  IInv
PROPERTIES
  ImplementsChannel
  Settled
  AckedIsDelivered
  LoopEnds
CHECK_DEADLOCK FALSE
