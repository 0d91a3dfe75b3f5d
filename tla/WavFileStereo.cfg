CONSTANTS
  ByteBase   = 8
  Channels   = 2
  SampleRate = 16
  WriteSizes = {1, 2}
  MaxWritten = 4
  kChunksize = 2
  ReadSizes  = {2}
SPECIFICATION FileSpec
INVARIANT AcceptedIsComplete
CHECK_DEADLOCK FALSE
