SPECIFICATION Spec
CONSTANTS
  d1 = d1
  d2 = d2
  d3 = d3
  Data = {d1, d2}
  Modes = {"ReliableOrdered"}
  Window = 2
  MaxRetransmits = 1
INVARIANTS
  AckedIsReceived
CHECK_DEADLOCK FALSE
