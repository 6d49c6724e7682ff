------------------------------ MODULE MCLanding ------------------------------
(* Landing and the runtime store.  A behaviour runs one part: "queue", the    *)
(* attempts of `land queue`; "merge", the merge driver; or "store", the       *)
(* runtime store and its migration.                                           *)
EXTENDS QueueLand, MergeDrive, RuntimeStore

VARIABLES part

MCPositions == 1..3
MCLegacyLogs == {<<"v1">>, <<"v2">>}
MCBrokenLog == <<"broken">>

LandingInit ==
  /\ part \in {"queue", "merge", "store"}
  /\ Init /\ MergeInit
  /\ StoreInit /\ (part # "store" => legacy = NoFile)

LandingNext ==
  /\ UNCHANGED part
  /\ \/ part = "queue" /\ Next /\ UNCHANGED <<mergeVars, storeVars>>
     \/ part = "merge" /\ MergeNext /\ UNCHANGED <<vars, storeVars>>
     \/ part = "store" /\ StoreNext /\ UNCHANGED <<vars, mergeVars>>

landingVars == <<part, vars, mergeVars, storeVars>>
LandingSpec == LandingInit /\ [][LandingNext]_landingVars

Symmetry == Permutations(Attempts) \union Permutations(PRs)
=============================================================================
