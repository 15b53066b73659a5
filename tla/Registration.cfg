CONSTANTS
  Relays = {r1, r2}
  Zero = Zero
  Stranger = Stranger
  RetryCount = 2
  Limit = 3
SPECIFICATION FairSpec
INVARIANT RegInv
INVARIANT AddressFollowsCall
INVARIANT CounterBounded
INVARIANT NoBackToBack
PROPERTY NoCallAfterRefusal
PROPERTY Reconnects
PROPERTY SilenceDetected
