SPECIFICATION Spec
CONSTANTS
    CheckProcs = {c1, c2}
    Defs = {"test"}
    TreeFiles = {"src"}
    EnvVars = {"FLAGS"}
    Globbed <- MCGlobbed
    AncestorFiles <- MCAncestor
    Allowed <- MCAllowed
    Reads <- MCReads
    MaxEdits = 2
    MaxRuns = 3
    MaxFaults = 1
    Pids = {"sh", "x", "y", "z"}
    Root = "sh"
    MaxRecycled = 1
    Jobs = {"j1"}
    Counts = {0, 1, 2}
    MaxProjected = 1
    Tenant = "acme"
    MaxWireFaults = 2
    MaxTrees = 6
    Bases = {98, 997, 8188, 8189}
    DIAGNOSIS_SIZE_BOUND = 8192
    MIN_RUNS_FLAKY = 5
    MIN_RUNS_REAL = 3
    MIN_SAMPLE_N = 2
    MaxTestRuns = 7
    MaxWaves = 3
    MaxAttempts = 2
    Editors = {e1, e2}
    MaxPolicyEdits = 3
    MaxRegens = 2
    MaxOps = 2
SYMMETRY MCSymmetry
INVARIANTS VerdictsHonest SweepExact DispatchHonest  
CHECK_DEADLOCK FALSE
