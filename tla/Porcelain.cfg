CONSTANTS
  p1 = p1
  p2 = p2
  a1 = a1
  a2 = a2
  Campaigns = {c1}
  Prs <- TwoPrs
  Intents = {i1, i2}
  Commits = {o1}
  Panels <- OnePanelEach
  Authors = {a1, a2}
  Mixes <- Mix
  MaxCrashes = 1
  HookKinds <- MCHookKinds
  UserHooks <- MCUserHooks
  NotRunnable <- MCNotRunnable
  MaxEdits = 1
  MaxVerbs = 3
SPECIFICATION PorcelainSpec
SYMMETRY PrSymmetry
CHECK_DEADLOCK FALSE
INVARIANTS
  ViewsAgree
  
PROPERTIES
  VerbsKeep
