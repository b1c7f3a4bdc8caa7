SPECIFICATION Spec
CONSTANTS
  NConns = 2
  MultiConn = TRUE
  Secured = FALSE
  IdMod = 3
  Stride = 1
  TokMod = 1
  SeqMod = 1
  WrapFloor = 0
  WrapCeil = 0
  AsmCap = 2
  ConnectLimit = 1
  Lifetime = 2
  MaxParts = 2
  CountsAll = FALSE
  Mistakes = FALSE
  MaxQueue = 2
  MaxPend = 2
  MaxAge = 0
INVARIANT DispatchedWhole
