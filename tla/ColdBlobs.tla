----------------------------- MODULE ColdBlobs -----------------------------
(***************************************************************************)
(* The content-addressed cold blob stores of the ledger, in memory and in  *)
(* a directory: put, get and erase of one blob by concurrent writers.      *)
(*                                                                         *)
(* One ref is modelled, the others are independent of it.  In a directory  *)
(* a file is absent, torn (truncated or half written), the blob or its     *)
(* tombstone.  The temporary file is named after the process, so threads   *)
(* of one process share it, and a rename moves the inode a second thread   *)
(* may still be writing.                                                   *)
(***************************************************************************)
EXTENDS Integers

CONSTANTS BlobWriters, BlobPids

VARIABLES
  backend,    \* "memory" or "dir"
  pidOf,      \* writer -> its process
  file,       \* dir: what is at the ref's path
  tmp,        \* dir: process, "blob" or "tomb" -> its temporary file
  mem,        \* memory: the two maps at the ref
  wpc,        \* writer -> the step of its call
  fd,         \* writer -> where the inode it writes is: "tmp", "path", "gone"
  acked,      \* some put or erase has returned Ok
  erased,     \* some erase has returned Ok
  raced       \* an erase was published while a put was past its check

blobVars == <<backend, pidOf, file, tmp, mem, wpc, fd, acked, erased, raced>>

Kinds == {"blob", "tomb"}
TmpName(w, kind) == <<pidOf[w], kind>>

BlobInit ==
  /\ backend \in {"memory", "dir"}
  /\ pidOf \in [BlobWriters -> BlobPids]
  /\ file = "absent"
  /\ tmp = [n \in BlobPids \X Kinds |-> "absent"]
  /\ mem = [blob |-> FALSE, tomb |-> FALSE]
  /\ wpc = [w \in BlobWriters |-> "idle"]
  /\ fd = [w \in BlobWriters |-> "gone"]
  /\ acked = FALSE /\ erased = FALSE /\ raced = FALSE

Step(w, from, to) == wpc[w] = from /\ wpc' = [wpc EXCEPT ![w] = to]

\* Content that is erased, or for the directory store there in any form.
put_known == IF backend = "memory" THEN mem.tomb ELSE file # "absent"

PutCheck(w) ==
  /\ Step(w, "idle", IF put_known THEN "idle"
                     ELSE IF backend = "memory" THEN "insert" ELSE "blob_open")
  /\ acked' = (acked \/ put_known)
  /\ UNCHANGED <<backend, pidOf, file, tmp, mem, fd, erased, raced>>

PutInsert(w) ==
  /\ Step(w, "insert", "idle")
  /\ mem' = [mem EXCEPT !.blob = TRUE]
  /\ acked' = TRUE
  /\ UNCHANGED <<backend, pidOf, file, tmp, fd, erased, raced>>

EraseMemory(w) ==
  /\ backend = "memory" /\ wpc[w] = "idle"
  /\ mem' = [blob |-> FALSE, tomb |-> TRUE]
  /\ acked' = TRUE /\ erased' = TRUE
  /\ raced' = (raced \/ \E o \in BlobWriters : wpc[o] = "insert")
  /\ UNCHANGED <<backend, pidOf, file, tmp, wpc, fd>>

EraseDir(w) ==
  /\ backend = "dir"
  /\ Step(w, "idle", "tomb_open")
  /\ UNCHANGED <<backend, pidOf, file, tmp, mem, fd, acked, erased, raced>>

\* fs::write opens and truncates, then writes.
Truncate(w, kind) ==
  /\ Step(w, IF kind = "blob" THEN "blob_open" ELSE "tomb_open",
             IF kind = "blob" THEN "blob_write" ELSE "tomb_write")
  /\ tmp' = [tmp EXCEPT ![TmpName(w, kind)] = "torn"]
  /\ fd' = [fd EXCEPT ![w] = "tmp"]
  /\ UNCHANGED <<backend, pidOf, file, mem, acked, erased, raced>>

WriteBytes(w, kind) ==
  /\ Step(w, IF kind = "blob" THEN "blob_write" ELSE "tomb_write",
             IF kind = "blob" THEN "blob_rename" ELSE "tomb_rename")
  /\ tmp' = IF fd[w] = "tmp" THEN [tmp EXCEPT ![TmpName(w, kind)] = kind] ELSE tmp
  /\ file' = IF fd[w] = "path" THEN kind ELSE file
  /\ fd' = [fd EXCEPT ![w] = "gone"]
  /\ UNCHANGED <<backend, pidOf, mem, acked, erased, raced>>

\* The rename publishes whatever the temporary file is; an earlier rename by a
\* thread of the same process leaves none, which is an I/O error.
Publish(w, kind) ==
  LET name == TmpName(w, kind)
      Moves(o) == fd[o] = "tmp" /\ TmpName(o, kind) = name
                  /\ wpc[o] = (IF kind = "blob" THEN "blob_write" ELSE "tomb_write")
  IN  /\ Step(w, IF kind = "blob" THEN "blob_rename" ELSE "tomb_rename", "idle")
      /\ IF tmp[name] = "absent"
         THEN UNCHANGED <<file, tmp, fd, acked, erased, raced>>
         ELSE /\ file' = tmp[name]
              /\ tmp' = [tmp EXCEPT ![name] = "absent"]
              /\ fd' = [o \in BlobWriters |-> IF Moves(o) THEN "path"
                                              ELSE IF fd[o] = "path" THEN "gone" ELSE fd[o]]
              /\ acked' = TRUE
              /\ erased' = (erased \/ kind = "tomb")
              /\ raced' = (raced \/ (kind = "tomb" /\ \E o \in BlobWriters :
                             wpc[o] \in {"blob_open", "blob_write", "blob_rename"}))
      /\ UNCHANGED <<backend, pidOf, mem>>

\* A process dies: its calls end where they are.
DieProcess ==
  /\ \E p \in BlobPids :
       /\ \E w \in BlobWriters : pidOf[w] = p /\ wpc[w] # "idle"
       /\ wpc' = [w \in BlobWriters |-> IF pidOf[w] = p THEN "idle" ELSE wpc[w]]
       /\ fd' = [w \in BlobWriters |-> IF pidOf[w] = p THEN "gone" ELSE fd[w]]
  /\ backend = "dir"
  /\ UNCHANGED <<backend, pidOf, file, tmp, mem, acked, erased, raced>>

BlobNext ==
  \/ \E w \in BlobWriters :
       \/ PutCheck(w) \/ PutInsert(w) \/ EraseMemory(w) \/ EraseDir(w)
       \/ \E k \in Kinds : Truncate(w, k) \/ WriteBytes(w, k) \/ Publish(w, k)
  \/ DieProcess

BlobSpec == BlobInit /\ [][BlobNext]_blobVars

GetOutcomes == {"Present", "Absent", "Erased", "DigestMismatch"}

\* Bytes that do not hash to the ref are refused, a tombstone answers for the
\* erased content.
get ==
  IF backend = "memory"
  THEN IF mem.blob THEN "Present" ELSE IF mem.tomb THEN "Erased" ELSE "Absent"
  ELSE CASE file = "blob" -> "Present"
         [] file = "tomb" -> "Erased"
         [] file = "absent" -> "Absent"
         [] OTHER -> "DigestMismatch"

OwnTmp == \A v, w \in BlobWriters : v # w => pidOf[v] # pidOf[w]

\* What a store has acknowledged it keeps: after an Ok the ref is never Absent
\* again, never unreadable unless two threads share a process id, and after an
\* erase it answers Erased for good unless a put was between its check and its
\* publication when the tombstone appeared (cold_store.rs put, get, erase).
AckedKept ==
  /\ get \in GetOutcomes
  /\ acked => get # "Absent"
  /\ backend = "memory" \/ OwnTmp => get # "DigestMismatch"
  /\ erased /\ ~raced /\ (backend = "memory" \/ OwnTmp) => get = "Erased"
  /\ get = "Erased" => erased \/ ~OwnTmp

\* "An erased ref is NEVER Absent and NEVER returns the bytes."
ErasedForGood == erased => get # "Present"

\* "A concurrent reader never sees a half-written blob."
NeverHalfWritten == get # "DigestMismatch"
=============================================================================
