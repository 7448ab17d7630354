SPECIFICATION Spec
CONSTANTS
  h1 = h1
  h2 = h2
  Wsi <- TwoHandles
  NoWsi = NoWsi
  Torn = Torn
  Masked = Masked
  ConnectPolls = 2
  MaxId = 3
  WriteMayFail = TRUE
\* The system stops: the connection thread exits after a stop, and the
\* process ends at a crash.
CHECK_DEADLOCK FALSE
INVARIANTS
  IInv
  LinkConsistent
  WireInOrder
PROPERTIES
  ImplementsSlot
  StopEndsRun
  NeverStuck
