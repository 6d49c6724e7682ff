------------------------------- MODULE MCStores -------------------------------
(* Capture from the hook to the event log, and the bootstrap lock.  A         *)
(* behaviour runs one part: "hooks", two hook invocations with their drains   *)
(* and reports; "drain", receipts appearing at will, with more faults; or     *)
(* "lock", verbs that bootstrap the log's file.                               *)
EXTENDS HookCapture, FileLock, TLC

VARIABLES part

\* Receipt 1 has a foreign identity; 2 and 4 are the two phases of one
\* reference transaction, 3 belongs to another one.
MCReceipts == 1..4
MCClass == <<"invalid", "valid", "valid", "valid">>
MCFingerprint == <<None, 7, 8, 7>>
MCPhase == <<None, "committed", "prepared", "prepared">>

Foreign == [kind |-> "foreign", oid |-> "good", from |-> "other", parents |-> 1,
            field |-> "known", lines |-> <<>>, big |-> FALSE]
Asking(k, ls) == [Foreign EXCEPT !.kind = k, !.lines = ls]

\* What Git may tell the hook of receipt 2: pushes at and past the tuple
\* limit, a merge, missing ids, malformed and oversize batches.
Invocations ==
  {Asking("push-attempt", <<"ok", "ok", "ok">>), Asking("push-attempt", <<"ok", "ok">>),
   Asking("merge", <<>>), [Asking("commit", <<>>) EXCEPT !.oid = "missing"],
   [Asking("checkout", <<>>) EXCEPT !.oid = "missing"],
   Asking("rewrite", <<"bad">>), Asking("unknown", <<>>),
   Asking("reference-transaction", <<"ok", "ok", "ok">>)}
MCRequests == [r \in MCReceipts |-> IF r = 2 THEN Invocations ELSE {Foreign}]

Invoked == 1..2        \* receipts of the part "hooks"
HookFaults == 1        \* bound: faults in that part

StoresInit ==
  /\ part \in {"hooks", "drain", "lock"}
  /\ CaptureInit /\ LockInit
  /\ part # "hooks" => asked[2] = Asking("merge", <<>>) /\ directory = "absent"

StoresNext ==
  /\ UNCHANGED part
  /\ \/ /\ part = "hooks" /\ UNCHANGED lockVars
        /\ \/ \E r \in Invoked : HookStep(r)
           \/ \E w \in Workers : DrainStep(w) \/ ReportStep(w)
           \/ Age /\ UNCHANGED <<hookVars, reportVars>>
        /\ faults' <= HookFaults
     \/ part = "drain" /\ Next /\ UNCHANGED <<hookVars, reportVars, lockVars>>
     \/ part = "lock" /\ LockNext /\ UNCHANGED allVars

StoresSpec == StoresInit /\ [][StoresNext]_<<part, allVars, lockVars>>

Symmetry == Permutations(Workers) \union Permutations(Procs)
==============================================================================
