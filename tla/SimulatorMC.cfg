SPECIFICATION Spec
CONSTANTS
  Thread = {t1, t2}
  Context <- MCContext
  Device = {"light", "fan"}
  Hours = {18, 20}
  MaxCalls = 4
SYMMETRY MCThreads
INVARIANTS
  IInv
  ServesSomebody
  LateIsBlocked
\* Nothing is sent to the API once the bound is reached.
CHECK_DEADLOCK FALSE
