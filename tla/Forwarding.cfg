CONSTANTS
  Keys = {k1, k2}
  Extra = {x1}
  NoValidator = FALSE
  OfrOnly = FALSE
  Cap = 1
  NoRet = NoRet
  MaxEra = 2
  MaxLog = 3
SPECIFICATION FairSpec
INVARIANT TypeOK
INVARIANT NoEcho
INVARIANT Accounted
PROPERTY Drains
