CONSTANTS
  Relays = {r1, r2}
  Zero = Zero
  Stranger = Stranger
  RetryCount = 2
  Limit = 2
SPECIFICATION Spec
INVARIANT PanicOnlyAfterSilence
