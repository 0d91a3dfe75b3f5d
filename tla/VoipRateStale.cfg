CONSTANTS
  p1 = p1
  p2 = p2
  a  = a
  b  = b
  ta = ta
  tb = tb
  ma = ma
  mb = mb
  None     = None
  Proc     <- MCProc
  Name     <- MCName
  Arg      <- MCArgEqual
  Tmp      <- MCTmp
  Mono     <- MCMono
  Killable <- MCNobody
  Faulty   <- MCNobody
SPECIFICATION Spec
INVARIANT ScoreNeedsDecode
