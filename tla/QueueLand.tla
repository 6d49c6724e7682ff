----------------------------- MODULE QueueLand -----------------------------
(***************************************************************************)
(* `hugit land queue` (hugit-cli land/mod.rs) and its attempt journal      *)
(* (land/attempt_journal.rs): every attempt takes the log's file lock,     *)
(* loads the log, publishes a start receipt and the current pointer,       *)
(* evaluates the queue, replaces the log and writes a terminal receipt.    *)
(* A process can die, and a file operation can fail, at every step; a      *)
(* receipt is a create_new followed by a write, so it can stay torn.       *)
(*                                                                         *)
(* An attempt is one process with its own operation_id.  The log is the    *)
(* count of pr.landed events of each pull request; how the union of the    *)
(* queue is evaluated is left open here: it holds, fails, or lets some     *)
(* pull requests proceed.                                                  *)
(***************************************************************************)
EXTENDS Naturals

CONSTANTS
  Attempts,     \* operation ids
  PRs,          \* queued pull requests
  None,
  MayOutlive,   \* a live attempt may hold the lock past STALE_LOCK_SECS
  MaxFaults     \* bound: crashes and failed file operations

ASSUME QueueLandAssumption ==
  /\ None \notin Attempts /\ MayOutlive \in BOOLEAN /\ MaxFaults \in Nat

VARIABLES
  lock,         \* who created the log's lock sidecar, or None
  log,          \* per pull request: its pr.landed events in the log
  dir,          \* the journal directory exists
  current,      \* current.json: an operation id, or None
  started,      \* per attempt: its start receipt, whose content is prior
  finished,     \* per attempt: its terminal receipt
  invalidated,  \* per attempt: its invalidation receipt
  pc,           \* per attempt: its next step
  copy,         \* per attempt: the log it loaded, then the log it staged
  prior,        \* per attempt: what begin found of the previous attempt
  outcome,      \* per attempt: outcome to be finished with
  faults,       \* counter for MaxFaults
  wrote,        \* history: attempts whose atomic_write of the log took effect
  spoiled       \* history: a fault hit before the pointer or inside a receipt

journal == <<dir, current, started, finished, invalidated>>
local == <<pc, copy, prior, outcome>>
history == <<wrote, spoiled>>
vars == <<lock, log, journal, local, faults, history>>

Outcomes == {"applied", "held", "failed"}
Previous == [id : Attempts \union {None}, disposition : Outcomes \union {"invalidated"}]
NoPrevious == [id |-> None, disposition |-> "invalidated"]

\* A receipt file: missing, created but not whole, or its content.
Missing == "missing"
Torn == "torn"

Beginning == {"inspect", "mkdir", "first", "read", "invalidate", "invalidate_write",
              "start", "start_write", "point"}
Holding == Beginning \union {"load", "evaluate", "persist", "finish", "finish_write"}
Points == Holding \union {"idle", "refused", "done", "dead"}

Goto(a, l) == pc' = [pc EXCEPT ![a] = l]

\* Drop of the file lock: removes the sidecar at the path, whoever made it.
Return(a, l) == Goto(a, l) /\ lock' = None

Init ==
  /\ lock = None /\ log = [p \in PRs |-> 0]
  /\ dir = FALSE /\ current = None
  /\ started = [a \in Attempts |-> Missing]
  /\ finished = [a \in Attempts |-> Missing]
  /\ invalidated = [a \in Attempts |-> Missing]
  /\ pc = [a \in Attempts |-> "idle"]
  /\ copy = [a \in Attempts |-> log]
  /\ prior = [a \in Attempts |-> NoPrevious]
  /\ outcome = [a \in Attempts |-> "failed"]
  /\ faults = 0 /\ wrote = {} /\ spoiled = FALSE

-----------------------------------------------------------------------------
(* The lock and the load of run_queue_land. *)

\* A sidecar is reclaimed from a dead holder, or from a slow one.
Reclaimable == lock # None /\ (pc[lock] = "dead" \/ MayOutlive)

\* Mutant: the lock does not exclude anyone.
AcquireAnyway(a) ==
  /\ pc[a] = "idle"
  /\ lock' = a /\ Goto(a, "load")
  /\ UNCHANGED <<log, journal, copy, prior, outcome, faults, history>>

Acquire(a) ==
  /\ pc[a] = "idle" /\ (lock = None \/ Reclaimable)
  /\ lock' = a /\ Goto(a, "load")
  /\ UNCHANGED <<log, journal, copy, prior, outcome, faults, history>>

\* log_busy.
Busy(a) ==
  /\ pc[a] = "idle" /\ lock # None
  /\ Goto(a, "done")
  /\ UNCHANGED <<lock, log, journal, copy, prior, outcome, faults, history>>

Load(a) ==
  /\ pc[a] = "load"
  /\ copy' = [copy EXCEPT ![a] = log]
  /\ Goto(a, "inspect")
  /\ UNCHANGED <<lock, log, journal, prior, outcome, faults, history>>

-----------------------------------------------------------------------------
(* AttemptJournal::begin. *)

\* The directory is there, or begin creates it and so may find no pointer.
Inspect(a) ==
  /\ pc[a] = "inspect"
  /\ Goto(a, IF dir THEN "read" ELSE "mkdir")
  /\ UNCHANGED <<lock, log, journal, copy, prior, outcome, faults, history>>

Mkdir(a) ==
  /\ pc[a] = "mkdir"
  /\ IF dir
       THEN Return(a, "refused") /\ UNCHANGED dir
       ELSE dir' = TRUE /\ Goto(a, "first") /\ UNCHANGED lock
  /\ UNCHANGED <<log, current, started, finished, invalidated, copy, prior,
                 outcome, faults, history>>

Whole(receipt) == receipt \notin {Missing, Torn}

\* Every receipt that begin reads of the current attempt is readable, the
\* start receipt is there, and there are not two terminal ones.
Readable(c) ==
  /\ Whole(started[c])
  /\ finished[c] # Torn /\ invalidated[c] # Torn
  /\ finished[c] = Missing \/ invalidated[c] = Missing

Disposition(c) == IF Whole(finished[c]) THEN finished[c] ELSE "invalidated"

Interrupted(c) == finished[c] = Missing /\ invalidated[c] = Missing

ReadFrame == UNCHANGED <<log, journal, copy, outcome, faults, history>>

\* begin finds a current attempt: finished, already invalidated, or to be
\* invalidated now.
Read(a) ==
  /\ pc[a] \in {"first", "read"} /\ current # None /\ Readable(current)
  /\ prior' = [prior EXCEPT ![a] = [id |-> current, disposition |-> Disposition(current)]]
  /\ Goto(a, IF Interrupted(current) THEN "invalidate" ELSE "start")
  /\ UNCHANGED lock /\ ReadFrame

\* No pointer in a directory that this call created.
ReadFirst(a) ==
  /\ pc[a] = "first" /\ current = None
  /\ Goto(a, "start")
  /\ UNCHANGED <<lock, prior>> /\ ReadFrame

\* Mutant: an interrupted attempt makes begin fail, as a damaged one does.
ReadRefusedInterrupted(a) ==
  /\ IF current = None THEN pc[a] = "read"
     ELSE pc[a] \in {"first", "read"} /\ (~Readable(current) \/ Interrupted(current))
  /\ Return(a, "refused")
  /\ UNCHANGED prior /\ ReadFrame

\* An existing directory without a pointer, or a current attempt whose
\* receipts are damaged: begin fails and changes nothing.
ReadRefused(a) ==
  /\ IF current = None THEN pc[a] = "read"
     ELSE pc[a] \in {"first", "read"} /\ ~Readable(current)
  /\ Return(a, "refused")
  /\ UNCHANGED prior /\ ReadFrame

\* create_record: create_new, which refuses an existing file, then the bytes.
Invalidate(a) ==
  /\ pc[a] = "invalidate"
  /\ IF invalidated[prior[a].id] # Missing
       THEN Return(a, "refused") /\ UNCHANGED invalidated
       ELSE /\ invalidated' = [invalidated EXCEPT ![prior[a].id] = Torn]
            /\ Goto(a, "invalidate_write") /\ UNCHANGED lock
  /\ UNCHANGED <<log, dir, current, started, finished, copy, prior, outcome,
                 faults, history>>

InvalidateWrite(a) ==
  /\ pc[a] = "invalidate_write"
  /\ invalidated' = [invalidated EXCEPT ![prior[a].id] = "whole"]
  /\ Goto(a, "start")
  /\ UNCHANGED <<lock, log, dir, current, started, finished, copy, prior,
                 outcome, faults, history>>

Start(a) ==
  /\ pc[a] = "start"
  /\ started' = [started EXCEPT ![a] = Torn]
  /\ Goto(a, "start_write")
  /\ UNCHANGED <<lock, log, dir, current, finished, invalidated, copy, prior,
                 outcome, faults, history>>

StartWrite(a) ==
  /\ pc[a] = "start_write"
  /\ started' = [started EXCEPT ![a] = "whole"]
  /\ Goto(a, "point")
  /\ UNCHANGED <<lock, log, dir, current, finished, invalidated, copy, prior,
                 outcome, faults, history>>

\* current.json is replaced atomically.
Point(a) ==
  /\ pc[a] = "point"
  /\ current' = a
  /\ Goto(a, "evaluate")
  /\ UNCHANGED <<lock, log, dir, started, finished, invalidated, copy, prior,
                 outcome, faults, history>>

-----------------------------------------------------------------------------
(* Evaluation, the write of the log, and AttemptJournal::finish. *)

\* land_one for each member that proceeds, on the staged copy of the log: a
\* pull request that has a pr.landed event gets no second one.
land_one(l, proceeding) ==
  [p \in PRs |-> IF p \in proceeding /\ l[p] = 0 THEN 1 ELSE l[p]]

\* batch_land_in_context: inconclusive, denied, or a staged log.
Evaluate(a) ==
  /\ pc[a] = "evaluate"
  /\ \/ /\ \E o \in {"held", "failed"} : outcome' = [outcome EXCEPT ![a] = o]
        /\ Goto(a, "finish") /\ UNCHANGED copy
     \/ /\ outcome' = [outcome EXCEPT ![a] = "applied"]
        /\ \E proceeding \in SUBSET PRs :
             copy' = [copy EXCEPT ![a] = land_one(copy[a], proceeding)]
        /\ Goto(a, "persist")
  /\ UNCHANGED <<lock, log, journal, prior, faults, history>>

Persist(a) ==
  /\ pc[a] = "persist"
  /\ log' = copy[a] /\ wrote' = wrote \union {a}
  /\ Goto(a, "finish")
  /\ UNCHANGED <<lock, journal, copy, prior, outcome, faults, spoiled>>

Finish(a) ==
  /\ pc[a] = "finish"
  /\ finished' = [finished EXCEPT ![a] = Torn]
  /\ Goto(a, "finish_write")
  /\ UNCHANGED <<lock, log, dir, current, started, invalidated, copy, prior,
                 outcome, faults, history>>

FinishWrite(a) ==
  /\ pc[a] = "finish_write"
  /\ finished' = [finished EXCEPT ![a] = outcome[a]]
  /\ Return(a, "done")
  /\ UNCHANGED <<log, dir, current, started, invalidated, copy, prior,
                 outcome, faults, history>>

-----------------------------------------------------------------------------
(* Faults. *)

\* From the creation of the directory to its pointer, and inside a receipt,
\* begin cannot tell an interrupted attempt from a damaged journal.
Fragile(a) ==
  \/ pc[a] \in {"invalidate_write", "finish_write"}
  \/ current = None /\ dir /\ pc[a] \in Beginning
Fault(a) ==
  /\ faults < MaxFaults /\ faults' = faults + 1
  /\ spoiled' = (spoiled \/ Fragile(a))

\* The process dies; its sidecar stays.
Crash(a) ==
  /\ pc[a] \in Holding /\ Fault(a)
  /\ Goto(a, "dead")
  /\ UNCHANGED <<lock, log, journal, copy, prior, outcome, wrote>>

\* Mutant: a failed write of the log is finished as applied.
FailFinishing(a) ==
  /\ pc[a] \in Holding /\ Fault(a)
  /\ IF pc[a] = "persist" THEN Goto(a, "finish") /\ UNCHANGED lock ELSE Return(a, "done")
  /\ UNCHANGED <<log, journal, copy, prior, outcome, wrote>>

\* An operation reports an error and the verb returns it, without a terminal
\* receipt.  An error reported after the effect (a directory fsync) is the
\* effect followed by a failure of the next operation.
Fail(a) ==
  /\ pc[a] \in Holding /\ Fault(a)
  /\ Return(a, "done")
  /\ UNCHANGED <<log, journal, copy, prior, outcome, wrote>>

Next ==
  \E a \in Attempts :
    \/ Acquire(a) \/ Busy(a) \/ Load(a)
    \/ Inspect(a) \/ Mkdir(a) \/ Read(a) \/ ReadFirst(a) \/ ReadRefused(a)
    \/ Invalidate(a) \/ InvalidateWrite(a)
    \/ Start(a) \/ StartWrite(a) \/ Point(a)
    \/ Evaluate(a) \/ Persist(a) \/ Finish(a) \/ FinishWrite(a)
    \/ Crash(a) \/ Fail(a)

Spec == Init /\ [][Next]_vars
-----------------------------------------------------------------------------
(* Properties. *)

Logs == [PRs -> Nat]

TypeOK ==
  /\ lock \in Attempts \union {None}
  /\ log \in Logs /\ dir \in BOOLEAN
  /\ current \in Attempts \union {None}
  /\ started \in [Attempts -> {Missing, Torn, "whole"}]
  /\ finished \in [Attempts -> Outcomes \union {Missing, Torn}]
  /\ invalidated \in [Attempts -> {Missing, Torn, "whole"}]
  /\ pc \in [Attempts -> Points]
  /\ copy \in [Attempts -> Logs]
  /\ prior \in [Attempts -> Previous]
  /\ outcome \in [Attempts -> Outcomes]
  /\ faults \in 0..MaxFaults
  /\ wrote \in SUBSET Attempts /\ spoiled \in BOOLEAN

\* No attempt gets both a terminal receipt and an invalidation: begin would
\* refuse such a journal for ever.
TerminalUnique ==
  \A a \in Attempts : finished[a] = Missing \/ invalidated[a] = Missing

\* A terminal receipt tells the truth about the log: applied only after the
\* log was replaced, held and failed only when it was not.
ReceiptTruthful ==
  \A a \in Attempts :
    /\ finished[a] = "applied" => a \in wrote
    /\ finished[a] \in {"held", "failed"} => a \notin wrote

Succeeds(a) == started[a] = "whole" /\ prior[a].id # None

\* A start receipt names the previous attempt only once that attempt is
\* settled, and with the disposition its own receipts show.
PriorSettled ==
  \A a \in Attempts :
    Succeeds(a) =>
      LET p == prior[a].id
      IN  \/ Whole(finished[p]) /\ prior[a].disposition = finished[p]
          \/ invalidated[p] = "whole" /\ prior[a].disposition = "invalidated"

\* Every replacement of the log is on record: its attempt is the current one
\* or the start receipt of a later one names it.
WritesTraced ==
  \A a \in wrote :
    current = a \/ \E b \in Attempts : Succeeds(b) /\ prior[b].id = a

\* However attempts are interrupted and repeated, a pull request lands once.
LandedOnce == \A p \in PRs : log[p] <= 1

\* The journal tells what happened, whatever died when.
JournalSound ==
  TerminalUnique /\ ReceiptTruthful /\ PriorSettled /\ WritesTraced /\ LandedOnce

\* begin refuses only a journal damaged by a fault before the first pointer
\* or inside a receipt: an attempt that died while it evaluated, or around
\* the write of the log, never blocks the next one.
RefusedOnlyIfSpoiled ==
  \A a \in Attempts : pc[a] = "refused" => spoiled

\* An attempt that was settled or superseded never replaces the log.
NoStaleWrite ==
  [][\A a \in wrote' \ wrote :
       /\ current = a
       /\ finished[a] = Missing /\ invalidated[a] = Missing]_vars

\* A landing on record stays there: no attempt writes back a log loaded
\* before another attempt's write.
LandingsKept == [][\A p \in PRs : log'[p] >= log[p]]_vars

\* No write to the log is stale, so none takes a landing back.
LogKept == NoStaleWrite /\ LandingsKept
=============================================================================
