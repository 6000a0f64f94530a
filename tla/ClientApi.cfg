SPECIFICATION ShapedSpec
CONSTANTS
  c1 = c1
  c2 = c2
  Calls = {c1, c2}
  ArgsOf <- AnyAndCommon
  MaxAnswers = 2
  Numbers <- SmallNumbers
  Limits <- LimitEdges
  Texts = {"", "t"}
INVARIANTS
  IInv
  OkIsOwnAnswer
  SentIsSound
PROPERTIES
  ImplementsCalls
  CallsEnd
CHECK_DEADLOCK FALSE
