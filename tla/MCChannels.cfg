SPECIFICATION PartSpec
CONSTANTS
  NConns = 1
  MultiConn = TRUE
  Secured = FALSE
  IdMod = 3
  Stride = 1
  TokMod = 3
  SeqMod = 6
  WrapFloor = 3
  WrapCeil = 2
  AsmCap = 2
  ConnectLimit = 1
  Lifetime = 2
  MaxParts = 1
  CountsAll = TRUE
  Mistakes = FALSE
  MaxQueue = 3
  MaxPend = 2
  MaxAge = 0
INVARIANTS Agreement GoodClientsServed
PROPERTY NumbersKept
