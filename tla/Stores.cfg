CONSTANTS
  None = None
  Receipts <- MCReceipts
  Class <- MCClass
  Fingerprint <- MCFingerprint
  Phase <- MCPhase
  Requests <- MCRequests
  Workers = {w1, w2}
  Limit = 2
  CleanupLimit = 1
  MaxFaults = 3
  TupleLimit = 2
  NoSidecar = NoSidecar
  Procs = {p1, p2, p3}
  AllowTakeover = FALSE
  LiveMayOutlive = TRUE
  MaxCrashes = 2
SPECIFICATION StoresSpec
SYMMETRY Symmetry
INVARIANTS
  DrainSafe
  CaptureSound
  LockSafe
PROPERTIES
  LogOnlyGrows
  ImplementsLedger
  StatusNeverHides
