CONSTANTS
  None = None
  main = main
  side = side
  a = a
  b = b
  i1 = i1
  Threads = {t1, t2, t3}
  Capacity = 2
  Calls <- MCCalls
  IntentRefs <- MCIntentRefs
  InitialLogs <- MCInitialLogs
  MaxCalls = 3
  MaxPanics = 1
SPECIFICATION Spec
SYMMETRY Symmetry
INVARIANTS
  GateSound
  LogSound
  IntentLandsOnce
PROPERTIES
  StepsSound
  ImplementsAtomicWriter
