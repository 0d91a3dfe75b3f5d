CONSTANTS
  Downsample = 2
  Align_Nfft = 8
  Pad        = 5
  MaxBPs     = 4
  Utts      <- MCUtts
  DegSamples = {36, 60}
  Estimates <- MCEstimates
  FineLags  <- MCFineLags
  MaxConf    = 2
  Confs      = {0, 1}
  Undefined  = Undefined
SPECIFICATION Spec
INVARIANTS TypeOK SumsAreOwn AnswerIsTheBest
PROPERTIES EvaluatedOnce KeepsContract Terminates
