CONSTANTS
  Callers = {c1, c2}
  Keys = {k1, k2}
  Cleaner = Cleaner
  Free = Free
  NoRet = NoRet
SPECIFICATION FairSpec
INVARIANT Inv
PROPERTY ImplementsWindow
PROPERTY EventuallyForgotten
