---------------------------- MODULE RuntimeStore ----------------------------
(***************************************************************************)
(* The runtime store (hugit-cli, runtime_store.rs): the files under the    *)
(* Git common directory and the one-time migration of a legacy log into    *)
(* them.  `attach`/`init` migrate directly; every other verb prepares the  *)
(* store first, handing over under the same lock.  A file holds a value or *)
(* does not exist; a digest is the value it digests.                       *)
(***************************************************************************)
EXTENDS Naturals, Sequences, SequencesExt

CONSTANTS Runners,     \* processes
          LegacyLogs,  \* contents the legacy log may have (chain valid)
          BrokenLog,   \* a legacy log whose chain does not verify
          MaxRuns      \* bound on the verbs started

NoFile == <<"absent">>
Null == <<"null">>

VARIABLES
  legacy,     \* .hugit/log.json of the main worktree
  copied,     \* legacy-log.json, the immutable copy
  canon,      \* records of event-log.json, none when it does not exist
  meta,       \* runtime.json
  canonLock, metaLock,   \* holders of the two file locks
  run,        \* what each process is doing
  issued,     \* repository ids handed to a caller
  acked,      \* records whose write was acknowledged
  runs        \* verbs started so far (bound)

storeVars == <<legacy, copied, canon, meta, canonLock, metaLock, run, issued, acked, runs>>

Free == <<"free">>
ASSUME StoreAssumption == Free \notin Runners /\ MaxRuns \in Nat

Prefix(d) == <<"runtime.legacy_prefix", d>>
Record(p, n) == <<"record", p, n>>
Metadata(source, prefix, id) == [source |-> source, prefix |-> prefix, id |-> id]
NoMeta == Metadata("no file", Null, Null)

\* The locals of a call: where it is, the verb, the legacy log it read, the
\* snapshot it migrates, the log or the metadata it is about to write.
Resting == [at |-> "rest", op |-> "none", source |-> NoFile, snapshot |-> NoFile,
            log |-> <<>>, value |-> NoMeta]

chain_valid(bytes) == bytes # BrokenLog

\* The canonical log starts with the prefix record of the digest.
bound(log, d) == log # <<>> /\ log[1] = Prefix(d)

----------------------------------------------------------------------------
Go(p, r) == run' = [run EXCEPT ![p] = r]
At(p, pc) == run[p].at = pc
StepTo(p, pc) == Go(p, [run[p] EXCEPT !.at = pc])
DropLocks(p) == /\ canonLock' = IF canonLock = p THEN Free ELSE canonLock
                /\ metaLock' = IF metaLock = p THEN Free ELSE metaLock
\* An error return: the guards are dropped, nothing more is written.
FailRun(p) == Go(p, Resting) /\ DropLocks(p)
Files == <<legacy, copied, canon, meta>>

\* prepared_metadata_matches: no metadata yet, metadata that binds the legacy
\* log that is there, or metadata that differs from it.
prepared_metadata_matches ==
  IF meta = NoMeta THEN "absent"
  ELSE IF legacy # NoFile /\ meta.prefix # legacy THEN "blocked"
  ELSE "prepared"

\* What follows a prepared store: the write of a verb, or the repository id.
AfterPrepare(p) == IF run[p].op = "verb" THEN "lock" ELSE "idlock"

\* migrate for attach; prepare_runtime_log for a verb and for repository_id.
StartVerb(p, op) ==
  /\ At(p, "rest") /\ runs < MaxRuns
  /\ runs' = runs + 1
  /\ Go(p, [Resting EXCEPT !.at = IF op = "attach" THEN "read" ELSE "prepare", !.op = op])
  /\ UNCHANGED <<Files, canonLock, metaLock, issued, acked>>

prepare_runtime_log(p) ==
  /\ At(p, "prepare")
  /\ CASE prepared_metadata_matches = "prepared" -> StepTo(p, AfterPrepare(p)) /\ DropLocks(p)
       [] prepared_metadata_matches = "blocked" -> FailRun(p)
       [] OTHER -> StepTo(p, "read") /\ DropLocks(p)
  /\ UNCHANGED <<Files, issued, acked, runs>>

\* migrate_inner reads the source before it has any lock.
migrate_read(p) ==
  /\ At(p, "read")
  /\ IF legacy # NoFile /\ ~chain_valid(legacy) THEN FailRun(p)
     ELSE /\ Go(p, [run[p] EXCEPT !.at = "compare", !.source = legacy])
          /\ UNCHANGED <<canonLock, metaLock>>
  /\ UNCHANGED <<Files, issued, acked, runs>>

migrate_compare(p) ==
  /\ At(p, "compare")
  /\ LET src == run[p].source
         snapshot == IF src # NoFile THEN src ELSE copied
     IN IF \/ src # NoFile /\ copied # NoFile /\ copied # src
           \/ snapshot # NoFile /\ ~chain_valid(snapshot)
        THEN FailRun(p)
        ELSE /\ Go(p, [run[p] EXCEPT !.at = "migrate_lock", !.snapshot = snapshot])
             /\ UNCHANGED <<canonLock, metaLock>>
  /\ UNCHANGED <<Files, issued, acked, runs>>

\* attach tries once; the handoff retries for its budget, then gives up.
acquire_bootstrap_lock(p) ==
  /\ At(p, "migrate_lock")
  /\ \/ canonLock = Free /\ canonLock' = p /\ UNCHANGED metaLock
        /\ StepTo(p, IF run[p].op = "attach" THEN "copy" ELSE "handoff")
     \/ canonLock # Free /\ FailRun(p)
  /\ UNCHANGED <<Files, issued, acked, runs>>

\* Under the lock a preparer looks again: another process may have migrated,
\* and the source must not have moved.
recheck_bootstrap_source(src) == legacy = src

handoff(p) ==
  /\ At(p, "handoff")
  /\ CASE prepared_metadata_matches = "prepared" -> StepTo(p, AfterPrepare(p)) /\ DropLocks(p)
       [] prepared_metadata_matches = "blocked" -> FailRun(p)
       [] OTHER -> IF recheck_bootstrap_source(run[p].source)
                   THEN StepTo(p, "copy") /\ UNCHANGED <<canonLock, metaLock>>
                   ELSE FailRun(p)
  /\ UNCHANGED <<Files, issued, acked, runs>>

migrate_copy(p) ==
  /\ At(p, "copy")
  /\ copied' = IF copied = NoFile THEN run[p].snapshot ELSE copied
  /\ StepTo(p, "canonical")
  /\ UNCHANGED <<legacy, canon, meta, canonLock, metaLock, issued, acked, runs>>

\* The canonical log gets the prefix record when it is empty, and must carry
\* it already when it is not.
migrate_canonical(p) ==
  LET d == run[p].snapshot
  IN /\ At(p, "canonical")
     /\ IF d # NoFile /\ canon # <<>> /\ ~bound(canon, d) THEN FailRun(p) /\ UNCHANGED canon
        ELSE /\ canon' = IF d # NoFile /\ canon = <<>> THEN <<Prefix(d)>> ELSE canon
             /\ StepTo(p, "metadata") /\ UNCHANGED <<canonLock, metaLock>>
     /\ UNCHANGED <<legacy, copied, meta, issued, acked, runs>>

\* The metadata is composed from one read of runtime.json...
migrate_metadata(p) ==
  LET d == IF run[p].snapshot = NoFile THEN Null ELSE run[p].snapshot
      source == IF run[p].source # NoFile THEN "legacy"
                ELSE IF meta # NoMeta THEN meta.source ELSE "none"
      id == IF meta = NoMeta THEN Null ELSE meta.id
  IN /\ At(p, "metadata")
     /\ Go(p, [Resting EXCEPT !.at = "publish", !.op = run[p].op,
                                    !.value = Metadata(source, d, id)])
     /\ UNCHANGED <<Files, canonLock, metaLock, issued, acked, runs>>

\* Mutant: what was composed is written over what is there.
migrate_publish_blind(p) ==
  /\ At(p, "publish")
  /\ meta' = run[p].value
  /\ DropLocks(p)
  /\ IF run[p].op = "attach" THEN Go(p, Resting) ELSE StepTo(p, AfterPrepare(p))
  /\ UNCHANGED <<legacy, copied, canon, issued, acked, runs>>

\* ... and compared with a second, or written when there is none.
migrate_publish(p) ==
  /\ At(p, "publish")
  /\ IF meta # NoMeta /\ meta # run[p].value
     THEN FailRun(p) /\ UNCHANGED meta
     ELSE /\ meta' = run[p].value
          /\ DropLocks(p)
          /\ IF run[p].op = "attach" THEN Go(p, Resting) ELSE StepTo(p, AfterPrepare(p))
  /\ UNCHANGED <<legacy, copied, canon, issued, acked, runs>>

----------------------------------------------------------------------------
\* A writing verb: FileLock::acquire on the canonical log, load, append, and
\* prepare_runtime_write before the atomic replace.
VerbLock(p) ==
  /\ At(p, "lock")
  /\ \/ /\ canonLock = Free /\ canonLock' = p
        /\ Go(p, [Resting EXCEPT !.at = "write", !.op = "verb",
                                 !.log = Append(canon, Record(p, runs))])
     \/ canonLock # Free /\ Go(p, Resting) /\ UNCHANGED canonLock
  /\ UNCHANGED <<Files, metaLock, issued, acked, runs>>

\* The prefix a log must carry: the metadata's, or that of a lone snapshot.
expected_digest ==
  IF meta # NoMeta THEN meta.prefix
  ELSE IF copied # NoFile THEN copied ELSE Null

bind_refused(log) ==
  /\ expected_digest # Null
  /\ \/ copied = NoFile \/ ~chain_valid(copied) \/ copied # expected_digest
     \/ log # <<>> /\ ~bound(log, expected_digest)

bind_legacy_prefix(log) ==
  IF expected_digest # Null /\ log = <<>> THEN <<Prefix(expected_digest)>> ELSE log

prepare_runtime_write(p) ==
  /\ At(p, "write")
  /\ IF prepared_metadata_matches # "prepared" \/ bind_refused(run[p].log)
     THEN UNCHANGED <<canon, acked>>
     ELSE /\ canon' = bind_legacy_prefix(run[p].log)
          /\ acked' = acked \union {Last(run[p].log)}
  /\ Go(p, Resting) /\ DropLocks(p)
  /\ UNCHANGED <<legacy, copied, meta, issued, runs>>

\* repository_id, after prepare: read under the metadata lock, then answer the
\* id that is there or make one.
IdLock(p) ==
  /\ At(p, "idlock")
  /\ \/ metaLock = Free /\ metaLock' = p /\ UNCHANGED canonLock
        /\ Go(p, [Resting EXCEPT !.at = "idwrite", !.op = "id",
             !.value = IF meta = NoMeta THEN Metadata("none", Null, Null) ELSE meta])
     \/ metaLock # Free /\ FailRun(p)
  /\ UNCHANGED <<Files, issued, acked, runs>>

repository_id(p) ==
  LET old == run[p].value
      new == IF old.id # Null THEN old ELSE [old EXCEPT !.id = <<"id", p, runs>>]
  IN /\ At(p, "idwrite")
     /\ meta' = IF new = old THEN meta ELSE new
     /\ issued' = issued \union {new.id}
     /\ Go(p, Resting) /\ DropLocks(p)
     /\ UNCHANGED <<legacy, copied, canon, acked, runs>>

----------------------------------------------------------------------------
\* A process dies: its locks become reclaimable, its files stay as they are.
CrashRun(p) ==
  /\ ~At(p, "rest")
  /\ FailRun(p)
  /\ UNCHANGED <<Files, issued, acked, runs>>

\* An older hugit, or its hook's lazy boot, writes or removes the legacy log.
LegacyWrites ==
  /\ runs < MaxRuns
  /\ legacy' \in (LegacyLogs \union {BrokenLog, NoFile}) \ {legacy}
  /\ runs' = runs + 1
  /\ UNCHANGED <<copied, canon, meta, canonLock, metaLock, run, issued, acked>>

StoreInit ==
  /\ legacy \in LegacyLogs \union {NoFile}
  /\ copied = NoFile /\ canon = <<>> /\ meta = NoMeta
  /\ canonLock = Free /\ metaLock = Free
  /\ run = [p \in Runners |-> Resting]
  /\ issued = {} /\ acked = {} /\ runs = 0

StoreNext ==
  \/ \E p \in Runners:
       \/ \E op \in {"attach", "verb", "id"}: StartVerb(p, op)
       \/ prepare_runtime_log(p)
       \/ migrate_read(p) \/ migrate_compare(p) \/ acquire_bootstrap_lock(p) \/ handoff(p)
       \/ migrate_copy(p) \/ migrate_canonical(p) \/ migrate_metadata(p) \/ migrate_publish(p)
       \/ VerbLock(p) \/ prepare_runtime_write(p)
       \/ IdLock(p) \/ repository_id(p)
       \/ CrashRun(p)
  \/ LegacyWrites

StoreSpec == StoreInit /\ [][StoreNext]_storeVars

----------------------------------------------------------------------------
LegacyFiles == LegacyLogs \union {BrokenLog, NoFile}
Ids == {Null} \union ({"id"} \X Runners \X (0..MaxRuns))
Entries == ({"runtime.legacy_prefix"} \X (LegacyFiles \union {Null}))
             \union ({"record"} \X Runners \X (0..MaxRuns))
Metas == [source : {"no file", "legacy", "none"}, prefix : LegacyFiles \union {Null}, id : Ids]
Calls ==
  [at : {"rest", "prepare", "read", "compare", "migrate_lock", "handoff", "copy", "canonical",
         "metadata", "publish", "lock", "write", "idlock", "idwrite"},
   op : {"none", "attach", "verb", "id"}, source : LegacyFiles, snapshot : LegacyFiles,
   log : Seq(Entries), value : Metas]

StoreTypeOK ==
  /\ legacy \in LegacyFiles /\ copied \in LegacyFiles
  /\ canon \in Seq(Entries) /\ meta \in Metas
  /\ canonLock \in Runners \union {Free} /\ metaLock \in Runners \union {Free}
  /\ run \in [Runners -> Calls]
  /\ issued \in SUBSET Ids /\ acked \in SUBSET Entries /\ runs \in 0..MaxRuns

(* Once runtime.json names a legacy prefix, a copy of a legacy log exists   *)
(* and the canonical log starts with the binding of that prefix, whatever   *)
(* migrations, verbs and crashes interleaved.                               *)
PrefixBound ==
  meta # NoMeta /\ meta.prefix # Null =>
    copied # NoFile /\ bound(canon, meta.prefix)

(* One repository id is ever handed out, and runtime.json still holds it:   *)
(* migrate writes runtime.json without the metadata lock repository_id      *)
(* takes, and must never write over the id.                                 *)
IdentityStable ==
  \A id \in issued: meta # NoMeta /\ meta.id = id

(* An acknowledged record stays in the canonical log.                       *)
AckedInLog == \A r \in acked: r \in ToSet(canon)

StoreSafe == PrefixBound /\ IdentityStable /\ AckedInLog

(* "Waiting cannot authorize publishing an obsolete snapshot if the legacy  *)
(* source changed" (runtime_store.rs): the immutable copy is the log whose  *)
(* digest runtime.json publishes.                                           *)
CopyIsPrefix == meta # NoMeta /\ meta.prefix # Null => copied = meta.prefix
=============================================================================
