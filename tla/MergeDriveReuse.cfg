CONSTANTS
  Positions = {1, 2, 3}
  RebuildBatch = FALSE
  MaxPushes = 1
  MaxPasses = 2
  MaxMergeFaults = 2
SPECIFICATION MergeSpec
CHECK_DEADLOCK FALSE
INVARIANT MergedIsGreen
