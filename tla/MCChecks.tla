------------------------------- MODULE MCChecks -------------------------------
(* What decides whether a change is good, one scenario each: the memo cache *)
(* of a check run, the process tree below the command's shell, the lease of *)
(* a remote runner; the diagnosis of a red history, flakes and the          *)
(* experiment; the policy gates, the regeneration gate and the broker.      *)
EXTENDS CheckRun, ProcessRunner, RunnerLease, Diagnosis, Gates

VARIABLE scenario

MCGlobbed == [d \in Defs |-> {"src"}]
MCAncestor == [d \in Defs |-> {"config"}]
MCAllowed == [d \in Defs |-> {"FLAGS"}]
MCReads == [d \in Defs |-> {"src", "config", "FLAGS", "rustc"}]
MCSymmetry == Permutations(CheckProcs)

Scenarios == {"cache", "processes", "lease", "bisect", "flakes", "experiment",
              "judge", "edit", "regen", "broker"}

Init ==
    /\ scenario \in Scenarios
    /\ CheckInit
    /\ ProcInit
    /\ LeaseInit
    /\ DiagInit
    /\ GatesInit
    /\ scenario # "lease" => \A j \in Jobs :
        job[j].path = "box" /\ job[j].measured = NoMetrics

RunNext ==
    \/ scenario = "cache" /\ CheckNext /\ UNCHANGED <<procVars, leaseVars>>
    \/ scenario = "processes" /\ ProcNext /\ UNCHANGED <<checkVars, leaseVars>>
    \/ scenario = "lease" /\ LeaseNext /\ UNCHANGED <<checkVars, procVars>>

DiagNext ==
    \/ scenario = "bisect" /\ BisectNext /\ UNCHANGED <<flakeVars, experimentVars>>
    \/ scenario = "flakes" /\ FlakeNext /\ UNCHANGED <<bisectVars, experimentVars>>
    \/ scenario = "experiment" /\ ExperimentNext /\ UNCHANGED <<bisectVars, flakeVars>>

GatesNext ==
    \/ scenario = "judge" /\ JudgeNext /\ UNCHANGED <<regenVars, brokerVars>>
    \/ scenario = "edit" /\ EditNext /\ UNCHANGED <<regenVars, brokerVars>>
    \/ scenario = "regen" /\ RegenNext /\ UNCHANGED <<policyVars, brokerVars>>
    \/ scenario = "broker" /\ BrokerNext /\ UNCHANGED <<policyVars, regenVars>>

Next ==
    /\ \/ RunNext /\ UNCHANGED <<diagVars, gateVars>>
       \/ DiagNext /\ UNCHANGED <<checkVars, procVars, leaseVars, gateVars>>
       \/ GatesNext /\ UNCHANGED <<checkVars, procVars, leaseVars, diagVars>>
    /\ UNCHANGED scenario

Spec == Init /\ [][Next]_<<checkVars, procVars, leaseVars, diagVars, gateVars, scenario>>

==============================================================================
