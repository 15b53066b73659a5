CONSTANTS
  Sources = {local, relay}
  Slots = {k1}
  None = None
  Cap = 1
  MaxCalls = 1
SPECIFICATION FairSpec
INVARIANT TypeOK
INVARIANT Conserved
PROPERTY AllFlushed
PROPERTY FirstOnce
