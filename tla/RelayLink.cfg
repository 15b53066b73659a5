CONSTANTS
  Relays = {r1, r2}
  Stranger = stranger
  Zero = Zero
  Set = Set
  Teams <- OneReader
SPECIFICATION FairSpec
INVARIANT WholeCopy
INVARIANT OnlyInForce
PROPERTY RegisterGetsLock
PROPERTY AliveGoesOn
CHECK_DEADLOCK FALSE
