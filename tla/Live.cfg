CONSTANTS
  None = None
  main = main
  side = side
  a = a
  b = b
  i1 = i1
  t1 = t1
  t2 = t2
  w1 = w1
  w2 = w2
  NoSidecar = NoSidecar
  Procs = {p1, p2, p3}
  AllowTakeover = TRUE
  LiveMayOutlive = FALSE
  MaxCrashes = 1
  Positions = {1, 2, 3, 4}
  Budgets = {0, 6, 20}
SPECIFICATION LiveSpec
CHECK_DEADLOCK FALSE
INVARIANTS
  UnionSound
PROPERTIES
  AbandonedReclaimed
  DrainsProgress
  EveryCallReturns
  EvaluationDecides
