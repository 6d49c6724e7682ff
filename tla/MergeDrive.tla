----------------------------- MODULE MergeDrive -----------------------------
(***************************************************************************)
(* Landing a batch on GitHub (hugit-queue core/order.rs, core/state.rs,    *)
(* github/merge.rs, github/recovery.rs, github/recompute.rs).  The engine  *)
(* marks the entries of the batch, the driver merges the landed ones one   *)
(* by one through the merge API, authors force-push under it, the API      *)
(* rejects calls, and the worker dies and replays the batch with the       *)
(* durable land log.                                                       *)
(*                                                                         *)
(* Entries are their queue positions; a head is the number of pushes so    *)
(* far.  A pass starts with a union evaluation of the heads at that        *)
(* moment, whose outcome (UnionQueue) is left open here.                   *)
(***************************************************************************)
EXTENDS Naturals, Sequences, FiniteSets

CONSTANTS
  Positions,      \* the batch
  RebuildBatch,   \* each pass builds a new Batch, or keeps the old one
  MaxPushes,      \* bound: force-pushes per pull request
  MaxPasses,      \* bound: union evaluations
  MaxMergeFaults  \* bound: crashes and rejected merges

ASSUME MergeAssumption ==
  /\ Positions \subseteq Nat /\ IsFiniteSet(Positions) /\ RebuildBatch \in BOOLEAN
  /\ MaxPushes \in Nat /\ MaxPasses \in Nat /\ MaxMergeFaults \in Nat

VARIABLES
  head,      \* per entry: live head of its pull request
  tested,    \* per entry: head the last union was folded from
  outcomes,  \* per entry: outcome of that union, or missing (held)
  entry,     \* per entry: EntryState in the worker's batch
  mode,      \* idle, drive or recover
  mpc,       \* next, call or mark
  todo,      \* landed entries that this call still has to merge
  durable,   \* LandLog: entries recorded as merged
  merged,    \* GitHub: merges in the order they happened
  passes,    \* counter for MaxPasses
  mergeFaults \* counter for MaxMergeFaults

worker == <<entry, mode, mpc, todo>>
mergeVars == <<head, tested, outcomes, worker, durable, merged, passes, mergeFaults>>

EntryStates == {"landable", "landed", "union_fail"}
Fresh == [i \in Positions |-> "landable"]
Merged == {merged[k].item : k \in DOMAIN merged}

\* Mutant: the steps are taken from the back of the queue.
FirstFromBack(s) == CHOOSE i \in s : \A j \in s : j <= i

\* The next step of a batch, in queue order.
First(s) == CHOOSE i \in s : \A j \in s : i <= j

Idle == mode' = "idle" /\ mpc' = "next" /\ todo' = {}

MergeInit ==
  /\ head = [i \in Positions |-> 0] /\ tested = head
  /\ outcomes = [i \in Positions |-> "missing"]
  /\ entry = Fresh /\ mode = "idle" /\ mpc = "next" /\ todo = {}
  /\ durable = {} /\ merged = <<>> /\ passes = 0 /\ mergeFaults = 0

\* An author force-pushes an open pull request.
ForcePush(i) ==
  /\ i \notin Merged /\ head[i] < MaxPushes
  /\ head' = [head EXCEPT ![i] = @ + 1]
  /\ UNCHANGED <<tested, outcomes, worker, durable, merged, passes, mergeFaults>>

\* Mutant: the engine's marks survive a new union evaluation.
EvaluateUnionKeepingBatch ==
  /\ mode = "idle" /\ passes < MaxPasses /\ passes' = passes + 1
  /\ tested' = head
  /\ outcomes' \in [Positions -> {"green", "failing"}] \union [Positions -> {"missing"}]
  /\ UNCHANGED <<entry, head, mode, mpc, todo, durable, merged, mergeFaults>>

\* The first union of a batch, or recompute_on_force_push: always a fresh
\* fold over the current heads.  An inconclusive one has no outcomes.
EvaluateUnion ==
  /\ mode = "idle" /\ passes < MaxPasses /\ passes' = passes + 1
  /\ tested' = head
  /\ outcomes' \in [Positions -> {"green", "failing"}] \union [Positions -> {"missing"}]
  /\ entry' = IF RebuildBatch THEN Fresh ELSE entry
  /\ UNCHANGED <<head, mode, mpc, todo, durable, merged, mergeFaults>>

-----------------------------------------------------------------------------
(* The engine. *)

is_terminal(s) == s \in {"landed", "union_fail"}

\* With the predecessors settled, which land_in_order guarantees by taking
\* the entries in queue order: both results are terminal.
transition(outcome) == IF outcome = "failing" THEN "union_fail" ELSE "landed"

\* A terminal entry is re-reported as it is.
land_in_order ==
  [i \in Positions |-> IF is_terminal(entry[i]) THEN entry[i] ELSE transition(outcomes[i])]

\* drive_atomic_merge or recover_and_replay; a missing outcome is refused
\* before any entry moves.
Run(m) ==
  /\ mode = "idle" /\ \A i \in Positions : outcomes[i] # "missing"
  /\ entry' = land_in_order
  /\ mode' = m /\ mpc' = "next"
  /\ todo' = {i \in Positions : entry'[i] = "landed"}
  /\ UNCHANGED <<head, tested, outcomes, durable, merged, passes, mergeFaults>>

-----------------------------------------------------------------------------
(* The driver. *)

\* The driver compares heads itself; the replay skips what the land log has.
NextEntry ==
  /\ mode # "idle" /\ mpc = "next" /\ todo # {}
  /\ LET i == First(todo)
     IN  \/ mode = "recover" /\ i \in durable /\ todo' = todo \ {i} /\ UNCHANGED <<mode, mpc>>
         \/ mode = "drive" /\ head[i] # tested[i] /\ Idle
         \/ mode = "drive" /\ head[i] = tested[i] /\ mpc' = "call" /\ UNCHANGED <<mode, todo>>
         \/ mode = "recover" /\ i \notin durable /\ mpc' = "call" /\ UNCHANGED <<mode, todo>>
  /\ UNCHANGED <<head, tested, outcomes, entry, durable, merged, passes, mergeFaults>>

Done ==
  /\ mode # "idle" /\ mpc = "next" /\ todo = {} /\ Idle
  /\ UNCHANGED <<head, tested, outcomes, entry, durable, merged, passes, mergeFaults>>

\* GitHub: the merge API as MergeApi::merge asks for it.  It is idempotent,
\* and refuses a head other than the expected one.
merge_api(i) ==
  IF i \in Merged THEN merged' = merged
  ELSE /\ head[i] = tested[i]
       /\ merged' = Append(merged, [item |-> i, head |-> head[i], outcome |-> outcomes[i]])

\* The merge call is made; the replay then has to write the land log.
Call ==
  /\ mpc = "call" /\ merge_api(First(todo))
  /\ IF mode = "recover" THEN mpc' = "mark" /\ UNCHANGED todo
     ELSE mpc' = "next" /\ todo' = todo \ {First(todo)}
  /\ UNCHANGED <<head, tested, outcomes, entry, mode, durable, passes, mergeFaults>>

\* StaleHead from the API.
CallStale ==
  /\ mpc = "call" /\ First(todo) \notin Merged /\ head[First(todo)] # tested[First(todo)]
  /\ Idle
  /\ UNCHANGED <<head, tested, outcomes, entry, durable, merged, passes, mergeFaults>>

\* The API rejects the call: the driver stops there.
CallRejected ==
  /\ mpc = "call" /\ mergeFaults < MaxMergeFaults /\ mergeFaults' = mergeFaults + 1
  /\ Idle
  /\ UNCHANGED <<head, tested, outcomes, entry, durable, merged, passes>>

Mark ==
  /\ mpc = "mark"
  /\ durable' = durable \union {First(todo)}
  /\ mpc' = "next" /\ todo' = todo \ {First(todo)}
  /\ UNCHANGED <<head, tested, outcomes, entry, mode, merged, passes, mergeFaults>>

\* The worker dies: its batch is gone, GitHub and the land log are not.
MergeCrash ==
  /\ mode # "idle" /\ mergeFaults < MaxMergeFaults /\ mergeFaults' = mergeFaults + 1
  /\ entry' = Fresh /\ Idle
  /\ UNCHANGED <<head, tested, outcomes, durable, merged, passes>>

MergeNext ==
  \/ \E i \in Positions : ForcePush(i)
  \/ EvaluateUnion \/ (\E m \in {"drive", "recover"} : Run(m))
  \/ NextEntry \/ Done \/ Call \/ CallStale \/ CallRejected \/ Mark \/ MergeCrash

MergeSpec == MergeInit /\ [][MergeNext]_mergeVars
-----------------------------------------------------------------------------
(* Properties. *)

MergeTypeOK ==
  /\ head \in [Positions -> 0..MaxPushes] /\ tested \in [Positions -> 0..MaxPushes]
  /\ outcomes \in [Positions -> {"green", "failing", "missing"}]
  /\ entry \in [Positions -> EntryStates]
  /\ mode \in {"idle", "drive", "recover"} /\ mpc \in {"next", "call", "mark"}
  /\ todo \in SUBSET Positions /\ (mpc # "next" => todo # {})
  /\ durable \in SUBSET Positions
  /\ merged \in Seq([item : Positions, head : 0..MaxPushes,
                     outcome : {"green", "failing", "missing"}])
  /\ passes \in 0..MaxPasses /\ mergeFaults \in 0..MaxMergeFaults

\* Main stays green: what the API merged had a green outcome in the union
\* that was last evaluated before the merge, however often heads moved,
\* merges were rejected and the worker died.
MergedIsGreen == \A k \in DOMAIN merged : merged[k].outcome = "green"

\* The land log never claims a merge that GitHub does not have.
DurableMeansMerged == durable \subseteq Merged

\* What is on main is green, and the land log is honest about it.
MainGreen == MergedIsGreen /\ DurableMeansMerged

\* When an entry is merged, every entry before it that is green in the same
\* union is merged already.
MergedInOrder ==
  [][\A i \in Positions :
       merged' # merged /\ i < merged'[Len(merged')].item /\ outcomes[i] = "green"
         => i \in Merged]_mergeVars
=============================================================================
