SPECIFICATION Spec
CONSTANT N = 3
INVARIANTS
  StateMatchesSocket
  SessionComplete
  IInv
PROPERTIES
  KeepsTrying
  StopEndsRun
CHECK_DEADLOCK FALSE
