SPECIFICATION Spec
CONSTANTS
  None = None
  Calls = {}
  OpenIds = {i1}
  MaxOpens = 2
  MaxHandlers = 2
PROPERTIES
  ExistingIsKept
CHECK_DEADLOCK FALSE
