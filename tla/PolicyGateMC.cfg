SPECIFICATION Spec
CONSTANTS
  Inputs <- MCInputs
  Lately <- MCLately
  Confidences <- MCConfidences
  Probas <- MCProbas
INVARIANTS
  AllowedExactly
  ScenariosAsDescribed
  FallbackNeverActs
CHECK_DEADLOCK FALSE
