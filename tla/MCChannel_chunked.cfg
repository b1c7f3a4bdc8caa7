SPECIFICATION Spec
CONSTANTS
  NConns = 1
  MultiConn = TRUE
  Secured = FALSE
  IdMod = 3
  Stride = 1
  TokMod = 3
  SeqMod = 6
  WrapFloor = 3
  WrapCeil = 2
  AsmCap = 2
  ConnectLimit = 1
  Lifetime = 2
  MaxParts = 2
  CountsAll = TRUE
  Mistakes = FALSE
  MaxQueue = 2
  MaxPend = 2
  MaxAge = 0
INVARIANT NoFalseAbort
