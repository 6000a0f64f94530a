SPECIFICATION Spec
CONSTANTS
  Numbers <- SmallNumbers
  Limits <- LimitEdges
  Texts = {"", "t"}
  Decimal <- SmallDecimal
INVARIANTS
  IInv
  SameMeaning
  FateIsTold
CHECK_DEADLOCK FALSE
