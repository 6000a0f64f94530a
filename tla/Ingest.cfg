SPECIFICATION FairSpec
CONSTANTS
  m1 = m1
  m2 = m2
  Messages = {m1, m2}
  Sends = {m2}
  AckMessages = TRUE
  MaxLogins = 2
  MaxFailures = 1
  MaxWire = 1
INVARIANTS
  IInv
  AtMostOneEvent
  StoredIsAnnounced
PROPERTIES
  ImplementsInbox
  EventuallyStored
CHECK_DEADLOCK FALSE
