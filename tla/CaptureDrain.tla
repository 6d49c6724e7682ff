---------------------------- MODULE CaptureDrain ----------------------------
(***************************************************************************)
(* Capture of Git activity (hugit-cli capture/): a hook publishes a        *)
(* receipt file and returns; detached workers, and `hugit health`, drain   *)
(* the receipts directory into the canonical event log under the log's     *)
(* file lock.  A worker can die, and most file operations can fail,        *)
(* between any two steps.                                                  *)
(*                                                                         *)
(* A receipt is named by its receipt_id; names are ordered, because a      *)
(* drain takes the first Limit of them.  A log entry is the receipt it     *)
(* carries, or a pairing projection; hashes and authorization of entries   *)
(* are the subject of EventLog.  The lock is the one of FileLock, taken    *)
(* over only from a dead holder.                                           *)
(***************************************************************************)
EXTENDS Integers, Sequences, FiniteSets

CONSTANTS
  Receipts,       \* receipt names
  Class,          \* per receipt: valid, invalid (identity) or unreadable
  Fingerprint,    \* per receipt: its reference transaction, or None
  Phase,          \* per receipt: phase of that transaction, or None
  Workers,        \* drain processes that may run at once
  None,
  Limit,          \* receipts one drain takes (32 in the code)
  CleanupLimit,   \* COMPLETION_CLEANUP_LIMIT
  MaxFaults       \* bound: crashes and failed file operations

ASSUME CaptureAssumption ==
  /\ Receipts \subseteq Nat
  /\ Class \in [Receipts -> {"valid", "invalid", "unreadable"}]
  /\ Limit \in Nat /\ CleanupLimit \in Nat /\ MaxFaults \in Nat
  /\ None \notin Receipts /\ None \notin Workers
  /\ {"orphan", "stale"} \intersect Workers = {}
  /\ None \notin {"orphan", "stale"}

VARIABLES
  published,  \* history: receipts whose hook published them
  source,     \* files in receipts/
  done,       \* completion markers
  dead,       \* dead letters
  log,        \* the canonical event log
  lock,       \* its sidecar: None, the holder, or left by a dead holder
  pc,         \* per worker: its next step
  work,       \* per worker: receipts or markers of this pass still to do
  item,       \* per worker: the one in hand
  copy,       \* per worker: the log as loaded
  faults      \* counter for MaxFaults

files == <<source, done, dead, log>>
local == <<pc, work, item, copy>>
vars == <<published, files, lock, local, faults>>

Valid == {r \in Receipts : Class[r] = "valid"}
Invalid == {r \in Receipts : Class[r] = "invalid"}

\* Points of a drain that holds the lock: a cleanup pass before the receipts
\* and one after them, the steps on one receipt, the reconcile step.
ItemPoints == {"claim", "load", "persist", "mark", "letter", "retire"}
Cleaning == {"clean", "unmark", "reclean", "reunmark"}
Holding == ItemPoints \union Cleaning \union {"reconcile"}
Points == Holding \union {"idle", "acquire"}

Goto(w, l) == pc' = [pc EXCEPT ![w] = l]
Forget(w) ==
  /\ work' = [work EXCEPT ![w] = {}]
  /\ item' = [item EXCEPT ![w] = None]
  /\ copy' = [copy EXCEPT ![w] = <<>>]

-----------------------------------------------------------------------------
(* The log's entries and the pairing of reference transactions. *)

ReceiptEntry(r) == [receipt |-> r, pairing |-> None]
Recorded(l) == {l[i].receipt : i \in DOMAIN l} \ {None}

\* Entries of one transaction, by phase.
InPhase(l, fp, phases) ==
  {i \in DOMAIN l : /\ l[i].receipt # None
                    /\ Fingerprint[l[i].receipt] = fp
                    /\ Phase[l[i].receipt] \in phases}

reference_transaction_pairing(l, fp) ==
  LET prepared == Cardinality(InPhase(l, fp, {"prepared"}))
      terminal == Cardinality(InPhase(l, fp, {"committed", "aborted"}))
  IN  CASE prepared = 1 /\ terminal = 1 -> "paired"
        [] prepared <= 1 /\ terminal = 0 -> "pending"
        [] prepared = 0 /\ terminal = 1 -> "unpaired"
        [] OTHER -> "ambiguous"

Projection(l, fp) ==
  [receipt |-> None,
   pairing |-> [fingerprint |-> fp,
                state |-> reference_transaction_pairing(l, fp),
                sources |-> {r \in Recorded(l) : Fingerprint[r] = fp}]]

Fingerprints(l) == {Fingerprint[r] : r \in Recorded(l)} \ {None}

\* append_pairing_projection skips a projection whose very text is in the log.
Missing(l) ==
  {fp \in Fingerprints(l) : \A i \in DOMAIN l : l[i] # Projection(l, fp)}

-----------------------------------------------------------------------------
(* Bounded passes over the directories. *)

Smaller(m, n) == IF m < n THEN m ELSE n

\* read_dir(completed).take(CleanupLimit): any order.
CleanupBatches ==
  {b \in SUBSET done : Cardinality(b) = Smaller(CleanupLimit, Cardinality(done))}

\* Mutant: the drain's bound is one too low.
DrainBatchesShort ==
  LET open == source \ done
  IN  {b \in SUBSET open :
         /\ Cardinality(b) = Smaller(Limit - 1, Cardinality(open))
         /\ \A r \in b, q \in open \ b : r < q}

\* The receipts without a marker, sorted, take(limit).
DrainBatches ==
  LET open == source \ done
  IN  {b \in SUBSET open :
         /\ Cardinality(b) = Smaller(Limit, Cardinality(open))
         /\ \A r \in b, q \in open \ b : r < q}

-----------------------------------------------------------------------------
Init ==
  /\ published = {} /\ source = {} /\ done = {} /\ dead = {}
  /\ log = <<>> /\ lock = None
  /\ pc = [w \in Workers |-> "idle"]
  /\ work = [w \in Workers |-> {}]
  /\ item = [w \in Workers |-> None]
  /\ copy = [w \in Workers |-> <<>>]
  /\ faults = 0

\* A hook's write_receipt: linkat publishes the whole file or nothing.
Publish(r) ==
  /\ r \notin published
  /\ published' = published \union {r}
  /\ source' = source \union {r}
  /\ UNCHANGED <<done, dead, log, lock, local, faults>>

\* A worker is spawned by a hook, or someone runs `hugit health`.
Start(w) ==
  /\ pc[w] = "idle"
  /\ Goto(w, "acquire")
  /\ UNCHANGED <<published, files, lock, work, item, copy, faults>>

\* Mutant: the lock is taken whoever holds it.
AcquireAnyway(w) ==
  /\ pc[w] = "acquire"
  /\ lock' = w
  /\ Goto(w, "clean")
  /\ \E b \in CleanupBatches : work' = [work EXCEPT ![w] = b]
  /\ UNCHANGED <<published, files, item, copy, faults>>

Acquire(w) ==
  /\ pc[w] = "acquire" /\ lock \in {None, "stale"}
  /\ lock' = w
  /\ Goto(w, "clean")
  /\ \E b \in CleanupBatches : work' = [work EXCEPT ![w] = b]
  /\ UNCHANGED <<published, files, item, copy, faults>>

\* The polls ran out: log_busy.  The worker's own three attempts are further
\* starts.
Busy(w) ==
  /\ pc[w] = "acquire" /\ lock \notin {None, "stale"}
  /\ Goto(w, "idle")
  /\ UNCHANGED <<published, files, lock, work, item, copy, faults>>

\* cleanup_completed, one marker: its source first, then the marker.
CleanSource(w) ==
  /\ pc[w] \in {"clean", "reclean"}
  /\ \E r \in work[w] :
       /\ source' = source \ {r}
       /\ item' = [item EXCEPT ![w] = r]
       /\ work' = [work EXCEPT ![w] = @ \ {r}]
  /\ Goto(w, IF pc[w] = "clean" THEN "unmark" ELSE "reunmark")
  /\ UNCHANGED <<published, done, dead, log, lock, copy, faults>>

Unmark(w) ==
  /\ pc[w] \in {"unmark", "reunmark"}
  /\ done' = done \ {item[w]}
  /\ item' = [item EXCEPT ![w] = None]
  /\ Goto(w, IF pc[w] = "unmark" THEN "clean" ELSE "reclean")
  /\ UNCHANGED <<published, source, dead, log, lock, work, copy, faults>>

\* The inventory, read after the first cleanup.
List(w) ==
  /\ pc[w] = "clean" /\ work[w] = {}
  /\ \E b \in DrainBatches : work' = [work EXCEPT ![w] = b]
  /\ Goto(w, "claim")
  /\ UNCHANGED <<published, files, lock, item, copy, faults>>

\* Mutant: the identity checks are left out.
ClaimUnvalidated(w) ==
  /\ pc[w] = "claim"
  /\ \E r \in work[w] :
       /\ \A q \in work[w] : r <= q
       /\ work' = [work EXCEPT ![w] = @ \ {r}]
       /\ item' = [item EXCEPT ![w] = r]
       /\ Goto(w, "load")
  /\ UNCHANGED <<published, files, lock, copy, faults>>

\* claim_receipt and the identity checks of drain_one.
Claim(w) ==
  /\ pc[w] = "claim"
  /\ \E r \in work[w] :
       /\ \A q \in work[w] : r <= q
       /\ work' = [work EXCEPT ![w] = @ \ {r}]
       /\ item' = [item EXCEPT ![w] = IF Class[r] = "unreadable" THEN None ELSE r]
       /\ Goto(w, CASE Class[r] = "valid" -> "load"
                    [] Class[r] = "invalid" -> "letter"
                    [] OTHER -> "claim")
  /\ UNCHANGED <<published, files, lock, copy, faults>>

\* Mutant: no check for the receipt_id in the log.
LoadWithoutDedupe(w) ==
  /\ pc[w] = "load"
  /\ copy' = [copy EXCEPT ![w] = log]
  /\ Goto(w, "persist")
  /\ UNCHANGED <<published, files, lock, work, item, faults>>

\* load_event_log; a receipt_id already in the log is not appended again.
Load(w) ==
  /\ pc[w] = "load"
  /\ copy' = [copy EXCEPT ![w] = log]
  /\ Goto(w, IF item[w] \in Recorded(log) THEN "mark" ELSE "persist")
  /\ UNCHANGED <<published, files, lock, work, item, faults>>

\* append_authorized on the loaded log, then atomic_write of all of it.
Persist(w) ==
  /\ pc[w] = "persist"
  /\ log' = Append(copy[w], ReceiptEntry(item[w]))
  /\ Goto(w, "mark")
  /\ UNCHANGED <<published, source, done, dead, lock, work, item, copy, faults>>

NextItem(w) == Goto(w, "claim") /\ item' = [item EXCEPT ![w] = None]

mark_completed(w) ==
  /\ pc[w] = "mark"
  /\ done' = done \union {item[w]}
  /\ NextItem(w)
  /\ UNCHANGED <<published, source, dead, log, lock, work, copy, faults>>

\* An existing letter with the same bytes counts as written.
dead_letter(w) ==
  /\ pc[w] = "letter"
  /\ dead' = dead \union {item[w]}
  /\ Goto(w, "retire")
  /\ UNCHANGED <<published, source, done, log, lock, work, item, copy, faults>>

\* remove_if_unchanged after the letter is durable.
Retire(w) ==
  /\ pc[w] = "retire"
  /\ source' = source \ {item[w]}
  /\ NextItem(w)
  /\ UNCHANGED <<published, done, dead, log, lock, work, copy, faults>>

\* After the last receipt, even when there was none.
Reconcile(w) ==
  /\ pc[w] = "claim" /\ work[w] = {}
  /\ Goto(w, "reconcile")
  /\ copy' = [copy EXCEPT ![w] = log]
  /\ UNCHANGED <<published, files, lock, work, item, faults>>

\* append_pairing_projection, one projection: each is persisted on its own.
Project(w) ==
  /\ pc[w] = "reconcile"
  /\ \E fp \in Missing(copy[w]) :
       /\ copy' = [copy EXCEPT ![w] = Append(@, Projection(@, fp))]
       /\ log' = copy'[w]
  /\ UNCHANGED <<published, source, done, dead, lock, pc, work, item, faults>>

Reconciled(w) ==
  /\ pc[w] = "reconcile" /\ Missing(copy[w]) = {}
  /\ Goto(w, "reclean")
  /\ \E b \in CleanupBatches : work' = [work EXCEPT ![w] = b]
  /\ UNCHANGED <<published, files, lock, item, copy, faults>>

\* drop(lock).
Release(w) ==
  /\ pc[w] = "reclean" /\ work[w] = {}
  /\ lock' = None
  /\ Goto(w, "idle") /\ Forget(w)
  /\ UNCHANGED <<published, files, faults>>

\* An operation on one receipt reports an error: the receipt stays and the
\* drain goes on.  An error reported after the effect (a directory fsync) is
\* the effect followed by a failure of the next operation.
FailItem(w) ==
  /\ pc[w] \in ItemPoints \ {"claim"} /\ faults < MaxFaults
  /\ faults' = faults + 1
  /\ NextItem(w)
  /\ UNCHANGED <<published, files, lock, work, copy>>

\* Cleanup or reconcile fails: drain returns the error and drops the lock.
FailDrain(w) ==
  /\ pc[w] \in Cleaning \union {"reconcile"} /\ faults < MaxFaults
  /\ faults' = faults + 1
  /\ lock' = None
  /\ Goto(w, "idle") /\ Forget(w)
  /\ UNCHANGED <<published, files>>

\* The process dies; its sidecar stays.
Crash(w) ==
  /\ pc[w] # "idle" /\ faults < MaxFaults
  /\ faults' = faults + 1
  /\ lock' = IF pc[w] \in Holding THEN "orphan" ELSE lock
  /\ Goto(w, "idle") /\ Forget(w)
  /\ UNCHANGED <<published, files>>

\* STALE_LOCK_SECS after the holder's death.
Age ==
  /\ lock = "orphan" /\ lock' = "stale"
  /\ UNCHANGED <<published, files, local, faults>>

Step(w) ==
  \/ Acquire(w) \/ Busy(w) \/ CleanSource(w) \/ Unmark(w) \/ List(w)
  \/ Claim(w) \/ Load(w) \/ Persist(w) \/ mark_completed(w)
  \/ dead_letter(w) \/ Retire(w)
  \/ Reconcile(w) \/ Project(w) \/ Reconciled(w) \/ Release(w)

Next ==
  \/ \E r \in Receipts : Publish(r)
  \/ \E w \in Workers : Start(w) \/ Step(w) \/ FailItem(w) \/ FailDrain(w) \/ Crash(w)
  \/ Age

Spec == Init /\ [][Next]_vars

\* A live process goes on, time passes, and hooks or `hugit health` keep
\* starting drains.
FairSpec ==
  /\ Spec
  /\ WF_vars(Age)
  /\ \A w \in Workers : WF_vars(Start(w)) /\ WF_vars(Step(w))
-----------------------------------------------------------------------------
(* Properties. *)

Entries ==
  [receipt : Receipts, pairing : {None}] \union
  [receipt : {None},
   pairing : [fingerprint : {Fingerprint[r] : r \in Receipts} \ {None},
              state : {"paired", "pending", "unpaired", "ambiguous"},
              sources : SUBSET Receipts]]

TypeOK ==
  /\ published \in SUBSET Receipts /\ source \in SUBSET Receipts
  /\ done \in SUBSET Receipts /\ dead \in SUBSET Receipts
  /\ log \in Seq(Entries)
  /\ lock \in Workers \union {None, "orphan", "stale"}
  /\ pc \in [Workers -> Points]
  /\ work \in [Workers -> SUBSET Receipts]
  /\ item \in [Workers -> Receipts \union {None}]
  /\ copy \in [Workers -> Seq(Entries)]
  /\ faults \in 0..MaxFaults

\* However often a drain died between the append and the marker, or a receipt
\* was retried, its receipt_id is in the log at most once.
RecordedOnce ==
  \A i, j \in DOMAIN log :
    log[i].receipt = log[j].receipt /\ log[i].receipt # None => i = j

\* A completion marker, which lets a later drain skip and delete the receipt,
\* stands for an entry that is durably in the log.
MarkerMeansRecorded == done \subseteq Recorded(log)

\* A published receipt is a file, an entry or a dead letter.
NothingLost == published \subseteq source \union Recorded(log) \union dead

\* What a hook published is recorded once, and never dropped on the way.
DrainSafe == RecordedOnce /\ MarkerMeansRecorded /\ NothingLost

\* No step rewrites the log's past: a worker never persists a log it loaded
\* before another writer's append.
LogOnlyGrows ==
  [][/\ Len(log) <= Len(log')
     /\ \A i \in DOMAIN log : log'[i] = log[i]]_vars

\* The last projection of a transaction in the log.
Current(fp) ==
  \E i \in DOMAIN log :
    /\ log[i] = Projection(log, fp)
    /\ \A j \in DOMAIN log : j > i /\ log[j].receipt = None =>
         log[j].pairing.fingerprint # fp

\* A drain that got past reconcile leaves, for every reference transaction in
\* the log, a last projection that says what all its recorded receipts say,
\* also for receipts that an earlier, dead drain appended.
ProjectionsCurrent ==
  \A w \in Workers : pc[w] \in {"reclean", "reunmark"} =>
    \A fp \in Fingerprints(log) : Current(fp)

\* Every published receipt with a valid identity reaches the log, as long as
\* fewer than Limit unreadable files hold places in a drain.
ValidRecorded ==
  \A r \in Valid : r \in published ~> r \in Recorded(log)

\* Files of finished receipts do not pile up: both the receipt and its marker
\* are gone in the end.
Retired ==
  \A r \in Valid \union Invalid :
    r \in published ~> r \notin source \union done

\* Drains make progress: every receipt is recorded, and nothing is left over.
DrainsProgress == ValidRecorded /\ Retired

Ledger == INSTANCE ReceiptLedger WITH
  Recordable <- Valid, Rejectable <- Invalid,
  pending <- source \ (Recorded(log) \union dead),
  recorded <- Recorded(log), rejected <- dead

\* The drain implements the ledger of receipts.
ImplementsLedger == Ledger!LSpec
=============================================================================
