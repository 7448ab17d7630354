SPECIFICATION Spec
CONSTANTS
  h1 = h1
  h2 = h2
  Wsi <- TwoHandles
  NoWsi = NoWsi
  Torn = Torn
  Masked = Masked
  ConnectPolls = 1
  MaxId = 2
  WriteMayFail = FALSE
\* The system stops: the connection thread exits after a stop, and the
\* process ends at a crash.
CHECK_DEADLOCK FALSE
INVARIANT SentIsWrittenOrWaits
