SPECIFICATION FairSpec
CONSTANTS
  None = None
  Calls = {c1}
  OpenIds = {i1}
  MaxOpens = 1
  MaxHandlers = 2
INVARIANTS
  IInv
  FailedLeavesNothing
PROPERTIES
  ImplementsRegistry
  ClosedIsForgotten
  CallbackRuns
  ConnectEnds
CHECK_DEADLOCK FALSE
