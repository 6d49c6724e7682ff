------------------------------ MODULE FileLock ------------------------------
(***************************************************************************)
(* The legacy lock of the porcelain verbs (hugit-cli pr/filelock.rs):      *)
(* processes that read, modify and atomically replace one shared file      *)
(* under a `<path>.lock` sidecar created with create_new.  A sidecar older *)
(* than STALE_LOCK_SECS is taken over by remove-then-create; the bootstrap *)
(* entry point never takes over.  Every system call is a step.             *)
(*                                                                         *)
(* The file's content is the set of processes whose update it holds: a     *)
(* load copies it, a persist writes the copy plus the writer's own update. *)
(***************************************************************************)
EXTENDS Naturals, FiniteSets

CONSTANTS
  Procs,             \* processes running a verb
  NoSidecar,         \* the lock file is absent
  AllowTakeover,     \* acquire (TRUE) or acquire_bootstrap (FALSE)
  LiveMayOutlive,    \* a live holder may keep the lock past the threshold
  MaxCrashes         \* bound: processes that die or leak their sidecar

ASSUME FileLockAssumption ==
  /\ AllowTakeover \in BOOLEAN /\ LiveMayOutlive \in BOOLEAN
  /\ MaxCrashes \in Nat /\ NoSidecar \notin [owner : Procs, old : BOOLEAN]

VARIABLES
  sidecar,    \* the lock file: NoSidecar, or who created it and whether it is old
  content,    \* updates in the target file
  lpc,        \* per process: its next system call
  loaded,     \* per process: the content it loaded
  confirmed,  \* history: processes told that their update is persisted
  crashes     \* counter for MaxCrashes

lockVars == <<sidecar, content, lpc, loaded, confirmed, crashes>>

LockHolding == {"load", "persist", "drop"}
LockPoints == {"idle", "create", "check", "remove", "recreate", "dead"} \union LockHolding

MoveTo(p, l) == lpc' = [lpc EXCEPT ![p] = l]

LockInit ==
  /\ sidecar = NoSidecar /\ content = {}
  /\ lpc = [p \in Procs |-> "idle"]
  /\ loaded = [p \in Procs |-> {}]
  /\ confirmed = {} /\ crashes = 0

BeginAcquire(p) ==
  /\ lpc[p] = "idle" /\ MoveTo(p, "create")
  /\ UNCHANGED <<sidecar, content, loaded, confirmed, crashes>>

\* Mutant: create instead of create_new.
TryCreateOverwriting(p) ==
  /\ sidecar' = [owner |-> p, old |-> FALSE]
  /\ MoveTo(p, "load")

\* create_new: an atomic create-iff-absent.
TryCreate(p) ==
  /\ sidecar = NoSidecar
  /\ sidecar' = [owner |-> p, old |-> FALSE]
  /\ MoveTo(p, "load")

Create(p) ==
  /\ lpc[p] = "create"
  /\ \/ TryCreate(p)
     \/ sidecar # NoSidecar /\ MoveTo(p, "check") /\ UNCHANGED sidecar
  /\ UNCHANGED <<content, loaded, confirmed, crashes>>

\* create_new succeeded but stamping or syncing the file failed: the caller
\* gets an I/O error and nobody removes the sidecar.
CreateStampFails(p) ==
  /\ lpc[p] \in {"create", "recreate"} /\ sidecar = NoSidecar /\ crashes < MaxCrashes
  /\ sidecar' = [owner |-> p, old |-> FALSE]
  /\ crashes' = crashes + 1
  /\ MoveTo(p, "idle")
  /\ UNCHANGED <<content, loaded, confirmed>>

\* lock_is_stale: an unreadable (already removed) sidecar is not stale.
lock_is_stale == sidecar # NoSidecar /\ sidecar.old

\* Mutant: takeover is never tried.
CheckNeverTakingOver(p) ==
  /\ lpc[p] = "check"
  /\ MoveTo(p, "idle")
  /\ UNCHANGED <<sidecar, content, loaded, confirmed, crashes>>

\* Otherwise the verb ends with Busy.
Check(p) ==
  /\ lpc[p] = "check"
  /\ MoveTo(p, IF AllowTakeover /\ lock_is_stale THEN "remove" ELSE "idle")
  /\ UNCHANGED <<sidecar, content, loaded, confirmed, crashes>>

\* remove_file(lock_path): removes whatever sidecar is there now.
Remove(p) ==
  /\ lpc[p] = "remove"
  /\ sidecar' = NoSidecar
  /\ MoveTo(p, "recreate")
  /\ UNCHANGED <<content, loaded, confirmed, crashes>>

Recreate(p) ==
  /\ lpc[p] = "recreate"
  /\ \/ TryCreate(p)
     \/ sidecar # NoSidecar /\ MoveTo(p, "idle") /\ UNCHANGED sidecar
  /\ UNCHANGED <<content, loaded, confirmed, crashes>>

LoadFile(p) ==
  /\ lpc[p] = "load"
  /\ loaded' = [loaded EXCEPT ![p] = content]
  /\ MoveTo(p, "persist")
  /\ UNCHANGED <<sidecar, content, confirmed, crashes>>

\* atomic_write: the rename replaces the whole content, or an earlier step
\* fails and the content stays.
PersistFile(p) ==
  /\ lpc[p] = "persist"
  /\ \/ content' = loaded[p] \union {p} /\ confirmed' = confirmed \union {p}
     \/ UNCHANGED <<content, confirmed>>
  /\ loaded' = [loaded EXCEPT ![p] = {}]
  /\ MoveTo(p, "drop")
  /\ UNCHANGED <<sidecar, crashes>>

\* Drop: removes the sidecar at the path, whoever created it.
DropLock(p) ==
  /\ lpc[p] = "drop"
  /\ sidecar' = NoSidecar
  /\ MoveTo(p, "idle")
  /\ UNCHANGED <<content, loaded, confirmed, crashes>>

\* The process dies where it stands; no destructor runs.
Die(p) ==
  /\ lpc[p] \notin {"idle", "dead"} /\ crashes < MaxCrashes
  /\ crashes' = crashes + 1
  /\ loaded' = [loaded EXCEPT ![p] = {}]
  /\ MoveTo(p, "dead")
  /\ UNCHANGED <<sidecar, content, confirmed>>

Abandoned == sidecar # NoSidecar /\ lpc[sidecar.owner] \notin LockHolding

\* STALE_LOCK_SECS pass.  A live holder finishes long before, unless
\* LiveMayOutlive.
GrowOld ==
  /\ sidecar # NoSidecar /\ ~sidecar.old
  /\ Abandoned \/ LiveMayOutlive
  /\ sidecar' = [sidecar EXCEPT !.old = TRUE]
  /\ UNCHANGED <<content, lpc, loaded, confirmed, crashes>>

LockStep(p) ==
  \/ Create(p) \/ Check(p) \/ Remove(p) \/ Recreate(p)
  \/ LoadFile(p) \/ PersistFile(p) \/ DropLock(p)

LockNext ==
  \/ \E p \in Procs : BeginAcquire(p) \/ LockStep(p) \/ CreateStampFails(p) \/ Die(p)
  \/ GrowOld

LockSpec == LockInit /\ [][LockNext]_lockVars

\* A live process executes its next system call, and time passes.
LockFairSpec == LockSpec /\ WF_lockVars(GrowOld) /\ \A p \in Procs : WF_lockVars(LockStep(p))

-----------------------------------------------------------------------------
(* Properties. *)

LockTypeOK ==
  /\ sidecar \in [owner : Procs, old : BOOLEAN] \union {NoSidecar}
  /\ content \in SUBSET Procs /\ confirmed \in SUBSET Procs
  /\ lpc \in [Procs -> LockPoints]
  /\ loaded \in [Procs -> SUBSET Procs]
  /\ crashes \in 0..MaxCrashes

\* At most one process is between acquiring the lock and dropping it.
MutualExclusion ==
  \A p, q \in Procs : lpc[p] \in LockHolding /\ lpc[q] \in LockHolding => p = q

\* An update its verb reported as persisted stays in the file: no later verb
\* replaces the file with a content loaded before it.
NoLostUpdate == confirmed \subseteq content

\* The lock does what it is for.  acquire_bootstrap, which never takes a
\* sidecar over, keeps it even when a holder dies or outlives the threshold.
LockSafe == MutualExclusion /\ NoLostUpdate

\* A drop only ever removes the sidecar its process created.
DropsOwnSidecar ==
  [][\A p \in Procs : lpc[p] = "drop" /\ lpc'[p] = "idle" =>
       sidecar # NoSidecar /\ sidecar.owner = p]_lockVars

\* A sidecar whose owner is gone does not shut the seam for good: as long as
\* verbs keep trying, it is gone again and again.
Contended == \E p \in Procs : lpc[p] = "check"
AbandonedReclaimed == []<>Contended => []<>~Abandoned
=============================================================================
