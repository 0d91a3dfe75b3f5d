CONSTANTS
  Downsample     = 2
  SEARCHBUFFER   = 2
  MINUTTLENGTH   = 2
  MAXNUTTERANCES = 3
  Align_Nfft     = 2
  MinSplit       = 3
  Pad            = 1
  RefWindows     = 10
  DegSamples     = {16, 21}
  Lags          <- MCLags
  Crudes        <- MCCrudes
  MinSilence     = 2
  Junk           = Junk
SPECIFICATION FairSpec
INVARIANTS TypeOK FindsTheSpeech LiveSlotsAreKept DegradedInOrder LooksInsideTheRow
PROPERTIES SplitKeepsOthers Terminates
