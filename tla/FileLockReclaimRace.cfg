CONSTANTS
  NoSidecar = NoSidecar
  Procs = {p1, p2, p3}
  AllowTakeover = TRUE
  LiveMayOutlive = FALSE
  MaxCrashes = 1
SPECIFICATION LockSpec
INVARIANTS
  MutualExclusion
