SPECIFICATION Spec
CONSTANTS
  p1 = p1
  p2 = p2
  c1 = c1
  c2 = c2
  m1 = m1
  m2 = m2
  Producers <- TwoProducers
  Consumers <- TwoConsumers
  Message <- TwoMessages
  NoMsg = NoMsg
  Free = Free
  Capacity = 2
INVARIANTS
  WakeupsCoverMessages
  NoSleepAfterShutdown
  ShutdownReturnIsFinal
  IInv
PROPERTIES
  ImplementsFifo
  ShutdownReleasesConsumers
  NonemptyIsServed
