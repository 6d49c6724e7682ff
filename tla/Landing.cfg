CONSTANTS
  None = None
  Attempts = {a1, a2, a3, a4}
  PRs = {p1, p2}
  MayOutlive = FALSE
  MaxFaults = 2
  Positions <- MCPositions
  RebuildBatch = TRUE
  MaxPushes = 1
  MaxPasses = 2
  MaxMergeFaults = 2
  Runners = {q1, q2}
  LegacyLogs <- MCLegacyLogs
  BrokenLog <- MCBrokenLog
  MaxRuns = 4
SPECIFICATION LandingSpec
SYMMETRY Symmetry
CHECK_DEADLOCK FALSE
INVARIANTS
  JournalSound
  RefusedOnlyIfSpoiled
  MainGreen
  StoreSafe
PROPERTIES
  LogKept
  MergedInOrder
