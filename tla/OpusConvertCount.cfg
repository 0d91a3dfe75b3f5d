CONSTANTS
  ByteBase    = 8
  DecodeRate  = 48
  OutRate     = 16
  MaxDuration = 4
  MaxBlock    = 2
  MaxHoles    = 0
  Faults      = FALSE
SPECIFICATION Spec
INVARIANT InCountIsPerChannel
