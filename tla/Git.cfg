CONSTANTS
  Objects = {"b","t","c1","c2","c3","m","v"}
  Kind <- MCKind
  Links <- MCLinks
  Gitlinks = {"sub"}
  Packs <- MCPacks
  RefNames <- MCRefNames
  Targets = {"c1","c3","m","v"}
  Clients = {"k1"}
  Depths = {0, 2}
  MaxPackBytes = 8
  MaxObjects = 4
  MaxInflated = 4
  MaxDeltaPasses = 3
  MaxCasLookups = 2
  MaxPushes = 3
  MaxDrops = 1
  Branches <- MCBranches
  Main <- MCMain
  Tips = {"t0", "t1"}
  NoTip = NoTip
  Chains = {"orchestrator", "worker"}
  History <- MCHistory
  QueueCap = 2
  ReflectBound = 1
  MaxMirrorLog = 3
  MaxGitHubPushes = 1
  MaxMirrorCrashes = 1
  SeedRefs <- MCSeedRefs
  Hashes = {"h1", "h2"}
  Commits = {"c1", "c2", "c3", "c4"}
  Urls = {"u1", "u2"}
  MaxSource = 3
  MaxRounds = 3
  Insts = {"i1", "u"}
  Unsafe = {"u"}
  Deliveries = {"d1"}
  Minters = {m1, m2}
  TrueTtl = 12
  MaxClock = 13
  MaxRestarts = 1
  MaxRetries = 2
  HoldCap = 2
  MaxHeld = 4
  Stale = 2
  MaxAge = 7
  PollInterval = 3
  PollSla = 3
  StatusRefs = {"s1", "s2"}
  StatusTips = {"x", "y"}
SPECIFICATION Spec
SYMMETRY Symmetry
CHECK_DEADLOCK FALSE
INVARIANTS
  WireSound
  
  
  
  
  
