CONSTANTS
  p1 = p1
  p2 = p2
  a1 = a1
  a2 = a2
  Campaigns = {c1}
  Prs = {p1, p2, p3}
  Intents = {i1}
  Commits = {o1}
  Panels <- OneVerdict
  Authors = {a1}
  Mixes <- QueueMix
  MaxCrashes = 0
  HookKinds <- MCHookKinds
  UserHooks <- MCUserHooks
  NotRunnable <- MCNotRunnable
  MaxEdits = 1
  MaxVerbs = 3
SPECIFICATION PorcelainSpec
SYMMETRY PrSymmetry
CHECK_DEADLOCK FALSE
INVARIANT QueueOrderFree
