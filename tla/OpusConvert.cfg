CONSTANTS
  ByteBase    = 8
  DecodeRate  = 48
  OutRate     = 16
  MaxDuration = 8
  MaxBlock    = 3
  MaxHoles    = 2
  Faults      = TRUE
SPECIFICATION Spec
INVARIANTS TypeOK ConvertsWhatWasDecoded
PROPERTIES Terminates KeepsConversion
