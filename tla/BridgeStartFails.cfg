SPECIFICATION Spec
CONSTANTS
  m1 = m1
  m2 = m2
  Message <- TwoMessages
  Mapped <- OneMapped
  NoMsg = NoMsg
  Capacity = 1
  LinkPolls = 1
  MaxInput = 1
\* The system stops: main returns.
CHECK_DEADLOCK FALSE
PROPERTY FailedStartExits
