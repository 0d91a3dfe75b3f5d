CONSTANTS
  Half       = 2
  Search     = 2
  Padding    = 4
  MaxSamples = 38
  Cases   <- MCCases
  BadSets <- MCBadSets
  Delays  <- MCDelays
SPECIFICATION Spec
INVARIANTS TypeOK IntervalsAreRuns OwnDelay
PROPERTY NeverWorse
