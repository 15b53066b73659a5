CONSTANTS
  Depth = 2
  NumChunks = 3
  MaxCount = 2
  MaxSeq = 4
  Faults = {"sz", "chunk", "empty", "large"}
  None = None
SPECIFICATION FairSpec
INVARIANT TypeOK
INVARIANT TakenInOrder
INVARIANT StartsFromLatest
PROPERTY ZeroHasReason
PROPERTY EveryBatchTaken
PROPERTY Released
