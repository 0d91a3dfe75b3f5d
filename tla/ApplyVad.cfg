CONSTANTS
  Nwindows       = 12
  MINSPEECHLGTH  = 1
  JOINSPEECHLGTH = 4
SPECIFICATION Spec
INVARIANTS TypeOK WholeRunsAreDropped SweepsMeetTheDefinition SpeechIsSeparated
