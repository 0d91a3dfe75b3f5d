CONSTANTS
  ByteBase   = 5
  Channels   = 1
  SampleRate = 16
  WriteSizes = {1, 3, 147}
  MaxWritten = 296
  kChunksize = 2
  ReadSizes  = {2, 5}
SPECIFICATION FileSpec
INVARIANTS FileTypeOK AcceptedIsComplete ShortReadIsTheLast
PROPERTY ClosedIsReadable
