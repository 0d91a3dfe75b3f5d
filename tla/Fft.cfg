CONSTANTS
  Prime     = 31
  Cos       = 7
  Sin       = 13
  MaxLength = 16
  MaxCalls  = 3
  Signals  <- MCSignals
SPECIFICATION Spec
INVARIANTS TypeOK ResultsAreExact
