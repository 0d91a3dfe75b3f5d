CONSTANTS
  p1 = p1
  p2 = p2
  Proc     <- MCProc
  Faulty   <- MCProc
  Killable <- MCProc
  Bytes    <- MCBytes
  Header   = 2
  Chunk    = 3
  Search   = 2
  Padding  = 3
  Quarter  = 3
SPECIFICATION Spec
INVARIANTS TypeOK HeapInOrder BuffersHold ResultsInOrder
PROPERTY KeepsMeasurement
