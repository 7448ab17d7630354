SPECIFICATION LoopSpec
CONSTANTS
  Float <- MCFloat
  NoNumber = NoNumber
  Entity <- MCEntity
  Collected <- MCEntity
  States <- MCStates
  Modes <- MCModes
  Times <- MCTimes
  MaxChanges = 2
INVARIANTS
  IInv
  ActsOnRealState
  ActsForSomebody
\* The collector exits when it was told to, and the bounds end the rest.
CHECK_DEADLOCK FALSE
