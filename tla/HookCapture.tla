----------------------------- MODULE HookCapture -----------------------------
(***************************************************************************)
(* The two ends of capture that CaptureDrain leaves out: how a Git hook    *)
(* turns what Git told it into a receipt and publishes the file            *)
(* (hugit-cli capture/mod.rs, receipt.rs), and how a drain, its lock       *)
(* dropped, counts the directories and replaces status.json (drain.rs).    *)
(*                                                                         *)
(* Receipt r is the one of hook invocation r.  What Git passed is a        *)
(* request: the kind of hook, whether its object id, its type or phase are *)
(* there, and the lines of its tuples, each well formed or not.  A receipt *)
(* that no hook wrote (a copied file) has the kind "foreign".              *)
(***************************************************************************)
EXTENDS CaptureDrain

CONSTANTS
  Requests,      \* per receipt: what Git may have told its hook
  TupleLimit     \* tuples one receipt carries (64 in the code)

VARIABLES
  hook,       \* per receipt: the next step of its hook
  asked,      \* per receipt: what Git told its hook
  said,       \* per receipt: the line in the hook log, or None
  temp,       \* per receipt: its temporary file
  payload,    \* per receipt: what it will carry
  directory,  \* receipts/: absent, private, open to others, or foreign
  report,     \* per worker: the next step of its report
  listed,     \* per worker: receipts of the listing
  counted,    \* per worker: pending and dead letters counted
  status,     \* status.json
  windows     \* history: the receipts open from each count to its write

hookVars == <<asked, hook, said, temp, payload, directory>>
reportVars == <<report, listed, counted, status, windows>>
allVars == <<vars, hookVars, reportVars>>

Kinds == {"commit", "checkout", "push-attempt", "merge", "rewrite",
          "reference-transaction"}

\* What one invocation is given (CaptureArgs).
CaptureArgs ==
  [kind : Kinds \union {"unknown", "foreign"},
   oid : {"good", "bad", "missing"}, from : {"zero", "parent", "other"},
   parents : 0..2, field : {"known", "unknown"},
   lines : Seq({"ok", "bad"}), big : BOOLEAN]

CaptureFault ==
  {"log_resolve", "runtime_prepare", "receipt_directory", "receipt_identity",
   "receipt_publish", "worker_spawn", "missing_oid", "unknown_kind"}

\* Markers are no codes of a fault, and Git passes what clap can parse.
ASSUME HookAssumption ==
  /\ TupleLimit \in Nat /\ None \notin CaptureFault \union {"recorded"}
  /\ \A r \in Receipts : Requests[r] \subseteq CaptureArgs

NoReceipt(fault) == [fault |-> fault, updates |-> 0, note |-> None]
Carrying(n, note) == [fault |-> None, updates |-> n, note |-> note]

-----------------------------------------------------------------------------
(* From the arguments to the payload. *)

\* The scan stops at the first line past the limit or not well formed; the
\* limit is tested first.
bounded_tuples(a) ==
  LET stops == {i \in DOMAIN a.lines : i > TupleLimit \/ a.lines[i] = "bad"}
  IN  CASE a.big -> "oversize"
        [] ~a.big /\ stops = {} -> "complete"
        [] OTHER -> IF \E i \in stops : i <= TupleLimit
                    THEN "malformed" ELSE "oversize"

\* Mutant: the tuples read so far are kept.
parse_push_tuples_prefix(a) ==
  Carrying(Smaller(TupleLimit, Len(a.lines)), "complete")

\* PushTuples: all tuples, or none and the reason.
parse_push_tuples(a) ==
  IF bounded_tuples(a) = "complete" THEN Carrying(Len(a.lines), "complete")
                                    ELSE Carrying(0, bounded_tuples(a))

\* The two batches that are refused when they are not complete.
capture_rewrite(a) ==
  IF a.field = "known" /\ bounded_tuples(a) = "complete"
  THEN Carrying(Len(a.lines), "complete") ELSE NoReceipt("unknown_kind")

capture_reference_transaction(a) ==
  IF a.field = "known" /\ bounded_tuples(a) = "complete"
  THEN Carrying(Len(a.lines), "complete") ELSE NoReceipt("unknown_kind")

\* changed_paths: an object id that is not one, or a failing git, gives no
\* paths, and the receipt goes without.
changed_paths(a) == IF a.oid = "good" THEN 1 ELSE 0

capture_commit(a) ==
  IF a.oid = "missing" THEN NoReceipt("missing_oid")
                       ELSE Carrying(changed_paths(a), "commit")

capture_checkout(a) ==
  IF a.oid = "missing" THEN NoReceipt("missing_oid")
  ELSE Carrying(0, IF a.from = "zero" THEN "may_be_clone" ELSE "branch_checkout")

commit_parents(a) == IF a.oid = "good" THEN a.parents ELSE 0

capture_merge(a) ==
  IF a.oid = "missing" THEN NoReceipt("missing_oid")
  ELSE Carrying(changed_paths(a),
         CASE commit_parents(a) > 1 -> "merge_commit"
           [] commit_parents(a) = 1 /\ a.from = "parent" -> "fast_forward"
           [] OTHER -> "unknown")

Captured(a) ==
  CASE a.kind = "commit" -> capture_commit(a)
    [] a.kind = "checkout" -> capture_checkout(a)
    [] a.kind = "push-attempt" -> parse_push_tuples(a)
    [] a.kind = "merge" -> capture_merge(a)
    [] a.kind = "rewrite" -> capture_rewrite(a)
    [] a.kind = "reference-transaction" -> capture_reference_transaction(a)
    [] OTHER -> NoReceipt("unknown_kind")

-----------------------------------------------------------------------------
(* The hook: capture_ref_update and write_receipt. *)

HookPoints == {"idle", "run", "prepare", "identity", "create", "write", "link",
               "unlink", "sync", "spawn", "exit", "dead"}

HookInit ==
  /\ asked \in [Receipts -> UNION {Requests[r] : r \in Receipts}]
  /\ \A r \in Receipts : asked[r] \in Requests[r]
  /\ hook = [r \in Receipts |-> "idle"]
  /\ said = [r \in Receipts |-> None]
  /\ temp = [r \in Receipts |-> "absent"]
  /\ payload = [r \in Receipts |-> NoReceipt(None)]
  /\ directory \in {"absent", "open", "foreign"}

HookGoto(r, l) == hook' = [hook EXCEPT ![r] = l]

\* err_to_log: the fault's code is logged and Git sees success.
Fault(r, f) == HookGoto(r, "exit") /\ said' = [said EXCEPT ![r] = f]

Quietly == UNCHANGED <<vars, reportVars>>
CountFault == faults < MaxFaults /\ faults' = faults + 1
FaultVars == <<published, files, lock, local, reportVars>>

HookStart(r) ==
  /\ hook[r] = "idle" /\ asked[r].kind # "foreign" /\ HookGoto(r, "run")
  /\ UNCHANGED <<asked, said, temp, payload, directory>> /\ Quietly

\* run: the kind decides; a refused request ends here.
Run(r) ==
  LET p == Captured(asked[r])
  IN  /\ hook[r] = "run"
      /\ payload' = [payload EXCEPT ![r] = p]
      /\ IF p.fault # None THEN Fault(r, p.fault)
                           ELSE HookGoto(r, "prepare") /\ UNCHANGED said
      /\ UNCHANGED <<asked, temp, directory>> /\ Quietly

\* ensure_private_dir: made, or closed to others when it is one's own.
ensure_private_dir(r) ==
  /\ hook[r] = "prepare"
  /\ IF directory = "foreign"
     THEN Fault(r, "receipt_directory") /\ UNCHANGED directory
     ELSE HookGoto(r, "identity") /\ directory' = "private" /\ UNCHANGED said
  /\ UNCHANGED <<asked, temp, payload>> /\ Quietly

\* The repository's id and a random invocation id name the receipt.
receipt_id(r) ==
  /\ hook[r] = "identity" /\ HookGoto(r, "create")
  /\ UNCHANGED <<asked, said, temp, payload, directory>> /\ Quietly

\* open_private_dir and the checks behind it: a directory of one's own, no
\* symbolic link, closed to others.
check_private_dir == directory = "private"

\* The mode is checked again; then O_EXCL on a random name.
CreateTemp(r) ==
  /\ hook[r] = "create"
  /\ IF ~check_private_dir
     THEN Fault(r, "receipt_publish") /\ UNCHANGED temp
     ELSE HookGoto(r, "write") /\ temp' = [temp EXCEPT ![r] = "part"] /\ UNCHANGED said
  /\ UNCHANGED <<asked, payload, directory>> /\ Quietly

\* write_all and sync_all.
WriteTemp(r) ==
  /\ hook[r] = "write" /\ HookGoto(r, "link")
  /\ temp' = [temp EXCEPT ![r] = "whole"]
  /\ UNCHANGED <<asked, said, payload, directory>> /\ Quietly

\* linkat: the receipt's name appears with the whole file behind it.
LinkReceipt(r) ==
  /\ hook[r] = "link" /\ HookGoto(r, "unlink")
  /\ Publish(r)
  /\ UNCHANGED <<asked, said, temp, payload, directory, reportVars>>

UnlinkTemp(r) ==
  /\ hook[r] = "unlink" /\ HookGoto(r, "sync")
  /\ temp' = [temp EXCEPT ![r] = "absent"]
  /\ UNCHANGED <<asked, said, payload, directory>> /\ Quietly

SyncDirectory(r) ==
  /\ hook[r] = "sync" /\ HookGoto(r, "spawn")
  /\ UNCHANGED <<asked, said, temp, payload, directory>> /\ Quietly

\* spawn_worker, then "capture.recorded" in the hook log.
spawn_worker(r) ==
  /\ hook[r] = "spawn" /\ Fault(r, "recorded")
  /\ \E w \in Workers : report[w] = "quiet" /\ Start(w)
  /\ UNCHANGED <<asked, temp, payload, directory, reportVars>>

\* A call of the hook fails: its fault is logged.  A failed write takes the
\* temporary file along; a failed fsync of the directory, or a failed spawn,
\* comes after the receipt is published.
HookFails(r) ==
  /\ CountFault
  /\ \/ hook[r] = "run" /\ Fault(r, "log_resolve") /\ UNCHANGED temp
     \/ hook[r] = "prepare" /\ Fault(r, "runtime_prepare") /\ UNCHANGED temp
     \/ hook[r] = "identity" /\ Fault(r, "receipt_identity") /\ UNCHANGED temp
     \/ hook[r] = "create" /\ Fault(r, "receipt_publish") /\ UNCHANGED temp
     \/ /\ hook[r] \in {"write", "link"} /\ Fault(r, "receipt_publish")
        /\ temp' = [temp EXCEPT ![r] = "absent"]
     \/ hook[r] = "sync" /\ Fault(r, "receipt_publish") /\ UNCHANGED temp
     \/ hook[r] = "spawn" /\ Fault(r, "worker_spawn") /\ UNCHANGED temp
  /\ UNCHANGED <<asked, payload, directory, FaultVars>>

HookDies(r) ==
  /\ hook[r] \notin {"idle", "exit", "dead"} /\ CountFault
  /\ HookGoto(r, "dead")
  /\ UNCHANGED <<asked, said, temp, payload, directory, FaultVars>>

\* Someone copies a file of another repository into receipts/.
Plant(r) ==
  /\ asked[r].kind = "foreign" /\ directory = "private" /\ Publish(r)
  /\ UNCHANGED <<hookVars, reportVars>>

HookStep(r) ==
  \/ HookStart(r) \/ Run(r) \/ ensure_private_dir(r) \/ receipt_id(r)
  \/ CreateTemp(r) \/ WriteTemp(r) \/ LinkReceipt(r) \/ UnlinkTemp(r)
  \/ SyncDirectory(r) \/ spawn_worker(r) \/ HookFails(r) \/ HookDies(r) \/ Plant(r)

-----------------------------------------------------------------------------
(* The report: write_current_status, outside the log's lock. *)

Open == source \ done
NoStatus == [pending |-> 0, dead |-> 0, written |-> FALSE]

ReportInit ==
  /\ report = [w \in Workers |-> "quiet"]
  /\ listed = [w \in Workers |-> {}]
  /\ counted = [w \in Workers |-> NoStatus]
  /\ status = NoStatus
  /\ windows = [w \in Workers |-> {}]

ReportGoto(w, l) == report' = [report EXCEPT ![w] = l]

\* A drain that released the lock, or found it busy, reports; one that failed
\* returns its error instead.
BeginReport(w) ==
  /\ Release(w) \/ Busy(w)
  /\ ReportGoto(w, "list")
  /\ UNCHANGED <<hookVars, listed, counted, status, windows>>

\* read_dir of receipts/.
ListPending(w) ==
  /\ report[w] = "list" /\ ReportGoto(w, "filter")
  /\ listed' = [listed EXCEPT ![w] = source]
  /\ windows' = [windows EXCEPT ![w] = Open]
  /\ UNCHANGED <<vars, hookVars, counted, status>>

\* Mutant: the markers are subtracted as a number.
pending_subtracted(names) ==
  IF Cardinality(names) > Cardinality(done)
  THEN Cardinality(names) - Cardinality(done) ELSE 0

\* Entries without a marker by now.
pending(names) == Cardinality(names \ done)

CountPending(w) ==
  /\ report[w] = "filter" /\ ReportGoto(w, "letters")
  /\ counted' = [counted EXCEPT ![w].pending = pending(listed[w])]
  /\ UNCHANGED <<vars, hookVars, listed, status, windows>>

\* receipt_entries of dead-letter/.
CountLetters(w) ==
  /\ report[w] = "letters" /\ ReportGoto(w, "replace")
  /\ counted' = [counted EXCEPT ![w].dead = Cardinality(dead)]
  /\ UNCHANGED <<vars, hookVars, listed, status, windows>>

\* A temporary file, written and renamed: the old file or the new one.
atomic_replace_private(counts) == status' = [counts EXCEPT !.written = TRUE]

write_current_status(w) ==
  /\ report[w] = "replace" /\ ReportGoto(w, "quiet")
  /\ atomic_replace_private(counted[w])
  /\ listed' = [listed EXCEPT ![w] = {}]
  /\ counted' = [counted EXCEPT ![w] = NoStatus]
  /\ windows' = [windows EXCEPT ![w] = {}]
  /\ UNCHANGED <<vars, hookVars>>

ReportDies(w) ==
  /\ report[w] # "quiet" /\ CountFault /\ ReportGoto(w, "quiet")
  /\ listed' = [listed EXCEPT ![w] = {}]
  /\ counted' = [counted EXCEPT ![w] = NoStatus]
  /\ windows' = [windows EXCEPT ![w] = {}]
  /\ UNCHANGED <<published, files, lock, local, hookVars, status>>

ReportStep(w) ==
  \/ BeginReport(w) \/ ListPending(w) \/ CountPending(w) \/ CountLetters(w)
  \/ write_current_status(w) \/ ReportDies(w)

\* The steps of a drain that CaptureDrain has, unchanged.
DrainStep(w) ==
  /\ \/ report[w] = "quiet" /\ Start(w)
     \/ Acquire(w) \/ CleanSource(w) \/ Unmark(w) \/ List(w) \/ Claim(w) \/ Load(w)
     \/ Persist(w) \/ mark_completed(w) \/ dead_letter(w) \/ Retire(w)
     \/ Reconcile(w) \/ Project(w) \/ Reconciled(w)
     \/ FailItem(w) \/ FailDrain(w) \/ Crash(w)
  /\ UNCHANGED <<hookVars, reportVars>>

CaptureInit == Init /\ HookInit /\ ReportInit
CaptureNext ==
  \/ \E r \in Receipts : HookStep(r)
  \/ \E w \in Workers : DrainStep(w) \/ ReportStep(w)
  \/ Age /\ UNCHANGED <<hookVars, reportVars>>
CaptureSpec == CaptureInit /\ [][CaptureNext]_allVars

-----------------------------------------------------------------------------
(* Properties. *)

\* A receipt the drains can take is whole, whenever its hook died, and a hook
\* that logged "recorded" has a receipt that is a file, an entry or a letter;
\* a hook that logged a fault from before the publication has none; and the
\* tuples of a receipt are all of Git's or none with the reason.
ReceiptsHonest ==
  \A r \in Receipts :
    /\ asked[r] \in CaptureArgs /\ hook[r] \in HookPoints
    /\ r \in published /\ temp[r] # "absent" => temp[r] = "whole"
    /\ said[r] = "recorded" => r \in source \union Recorded(log) \union dead
    /\ said[r] \in CaptureFault \ {"receipt_publish", "worker_spawn"} =>
         r \notin published
    /\ r \in published /\ asked[r].kind = "push-attempt" =>
         \/ payload[r].updates = Len(asked[r].lines) /\ payload[r].note = "complete"
         \/ payload[r].updates = 0 /\ payload[r].note \in {"oversize", "malformed"}

\* What capture promises its readers: a receipt is whole and carries what Git
\* said, a hook's log line is true, and a drain that got past reconcile leaves
\* a current projection for every reference transaction, also for receipts
\* that a dead drain appended.
CaptureSound == ReceiptsHonest /\ ProjectionsCurrent

\* Hooks publish, and other drains mark, clean and dead-letter, while a drain
\* counts without the lock: status.json still never counts fewer receipts
\* than were waiting from the listing to the write, and never more letters
\* than there are.
StatusNeverHides ==
  [][\A w \in Workers : report[w] # report'[w] /\ status' # status =>
       /\ status'.pending >= Cardinality(windows[w] \intersect Open)
       /\ status'.dead <= Cardinality(dead)]_allVars
=============================================================================
