CONSTANTS
  p1 = p1
  p2 = p2
  a1 = a1
  a2 = a2
  Campaigns = {c1}
  Prs = {p1}
  Intents = {i1, i2}
  Commits = {o1}
  Panels <- OneVerdict
  Authors = {a1, a2}
  Mixes <- Mix
  MaxCrashes = 0
  HookKinds <- MCHookKinds
  UserHooks <- MCUserHooks
  NotRunnable <- MCNotRunnable
  MaxEdits = 1
  MaxVerbs = 3
SPECIFICATION PorcelainSpec
CHECK_DEADLOCK FALSE
INVARIANT AdoptedRuns
