SPECIFICATION Spec
CONSTANTS
  m1 = m1
  m2 = m2
  Message <- TwoMessages
  Mapped <- OneMapped
  NoMsg = NoMsg
  Capacity = 2
  LinkPolls = 1
  MaxInput = 3
\* The system stops: main returns.
CHECK_DEADLOCK FALSE
INVARIANTS
  IInv
  NoThreadInDestroy
PROPERTIES
  ImplementsForwarder
  GracefulExit
  MessageIsSettled
