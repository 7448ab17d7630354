SPECIFICATION Spec
CONSTANTS
  api = api
  predictor = predictor
  cli = cli
  Server <- MCServer
  Predictor <- MCPredictor
  Cli <- MCCli
  Candidate <- MCCandidate
  MaxPredictions = 2
INVARIANTS
  EffectHasAudit
  CalledOnce
  IInv
PROPERTY
  AnsweredForGood
CHECK_DEADLOCK FALSE
