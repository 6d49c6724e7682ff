----------------------------- MODULE StoreProofs -----------------------------
(***************************************************************************)
(* The drain of captured receipts, the hooks and status reports around it, *)
(* and the bootstrap lock, for every number of receipts, workers and       *)
(* processes, and for any number of crashes and failed file operations.    *)
(***************************************************************************)
EXTENDS HookCapture, FileLock, FiniteSetTheorems, TLAPS

(* The drain (CaptureDrain). *)

-----------------------------------------------------------------------------
(* Entries and what they record. *)

OnceIn(l) ==
  \A i, j \in DOMAIN l : l[i].receipt = l[j].receipt /\ l[i].receipt # None => i = j

LEMMA RecordedEmpty == Recorded(<<>>) = {} /\ OnceIn(<<>>)
BY DEF Recorded, OnceIn

LEMMA RecordedType ==
  ASSUME NEW l \in Seq(Entries)
  PROVE  Recorded(l) \subseteq Receipts
<1>1. \A i \in DOMAIN l : l[i] \in Entries
  OBVIOUS
<1>2. \A e \in Entries : e.receipt \in Receipts \union {None}
  BY DEF Entries
<1> QED BY <1>1, <1>2 DEF Recorded

LEMMA ReceiptEntryType ==
  ASSUME NEW r \in Receipts
  PROVE  ReceiptEntry(r) \in Entries /\ ReceiptEntry(r).receipt = r
BY DEF ReceiptEntry, Entries

LEMMA PairingState ==
  ASSUME NEW l, NEW fp
  PROVE  reference_transaction_pairing(l, fp) \in {"paired", "pending", "unpaired", "ambiguous"}
BY DEF reference_transaction_pairing

LEMMA ProjectionType ==
  ASSUME NEW l \in Seq(Entries), NEW fp \in Missing(l)
  PROVE  Projection(l, fp) \in Entries /\ Projection(l, fp).receipt = None
<1>1. fp \in {Fingerprint[r] : r \in Receipts} \ {None}
  BY RecordedType DEF Missing, Fingerprints
<1>2. {r \in Recorded(l) : Fingerprint[r] = fp} \in SUBSET Receipts
  BY RecordedType
<1> QED BY <1>1, <1>2, PairingState DEF Projection, Entries

LEMMA RecordedAppend ==
  ASSUME NEW l \in Seq(Entries), NEW e \in Entries
  PROVE  /\ Append(l, e) \in Seq(Entries)
         /\ Recorded(Append(l, e)) = Recorded(l) \union ({e.receipt} \ {None})
         /\ Len(Append(l, e)) = Len(l) + 1
         /\ \A i \in DOMAIN l : Append(l, e)[i] = l[i]
<1> DEFINE m == Append(l, e)
<1>1. m \in Seq(Entries) /\ Len(m) = Len(l) + 1 /\ DOMAIN m = 1..(Len(l) + 1)
  OBVIOUS
<1>2. /\ \A i \in 1..Len(l) : m[i] = l[i]
      /\ m[Len(l) + 1] = e
  OBVIOUS
<1>3. DOMAIN l = 1..Len(l) /\ Len(l) \in Nat
  OBVIOUS
<1> HIDE DEF m
<1>4. \A i \in DOMAIN m : i \in DOMAIN l \/ i = Len(l) + 1
  BY <1>1, <1>3
<1>5. DOMAIN l \subseteq DOMAIN m /\ Len(l) + 1 \in DOMAIN m
  BY <1>1, <1>3
<1>6. Recorded(m) = Recorded(l) \union ({e.receipt} \ {None})
  <2>1. ASSUME NEW x PROVE x \in Recorded(m) <=> x \in Recorded(l) \union ({e.receipt} \ {None})
    BY <1>2, <1>3, <1>4, <1>5 DEF Recorded
  <2> QED BY <2>1
<1> QED BY <1>1, <1>2, <1>3, <1>6 DEF m

LEMMA OnceAppend ==
  ASSUME NEW l \in Seq(Entries), NEW e \in Entries, OnceIn(l),
         e.receipt \notin Recorded(l)
  PROVE  OnceIn(Append(l, e))
<1> DEFINE m == Append(l, e)
<1>1. /\ \A i \in 1..Len(l) : m[i] = l[i]
      /\ m[Len(l) + 1] = e
      /\ DOMAIN m = 1..(Len(l) + 1) /\ DOMAIN l = 1..Len(l) /\ Len(l) \in Nat
  OBVIOUS
<1>2. \A i \in 1..Len(l) : l[i].receipt = e.receipt => e.receipt = None
  BY <1>1 DEF Recorded
<1> HIDE DEF m
<1>3. \A i \in DOMAIN m : i \in 1..Len(l) \/ i = Len(l) + 1
  BY <1>1
<1> QED BY <1>1, <1>2, <1>3 DEF OnceIn, m
-----------------------------------------------------------------------------
(* The inductive invariant. *)

\* Only the lock's holder is inside a drain.
LockInv == \A w \in Workers : pc[w] \in Holding => lock = w

\* Files and entries come from published receipts of the right class, and a
\* marker stands for an entry.
FilesInv ==
  /\ source \subseteq published
  /\ Recorded(log) \subseteq published \intersect Valid
  /\ dead \subseteq published \intersect Invalid
  /\ done \subseteq Recorded(log)
  /\ NothingLost
  /\ OnceIn(log)

\* What a worker knows at each point of its drain.
Knows(w) ==
  /\ pc[w] \in Cleaning => work[w] \subseteq done
  /\ pc[w] \in ItemPoints => work[w] \subseteq source
  /\ pc[w] \in {"load", "persist"} => item[w] \in Valid \intersect source
  /\ pc[w] = "persist" => item[w] \notin Recorded(log)
  /\ pc[w] = "mark" => item[w] \in Valid \intersect Recorded(log)
  /\ pc[w] = "letter" => item[w] \in Invalid \intersect source
  /\ pc[w] = "retire" => item[w] \in Invalid \intersect dead
  /\ pc[w] \in {"persist", "reconcile"} => copy[w] = log
  /\ pc[w] \in Points \ {"load", "persist", "mark", "letter", "retire",
                          "unmark", "reunmark"} => item[w] = None
  /\ item[w] \notin work[w]

WorkerInv == \A w \in Workers : Knows(w)

DrainInv == TypeOK /\ LockInv /\ FilesInv /\ WorkerInv

LEMMA ClassSets == Valid \subseteq Receipts /\ Invalid \subseteq Receipts
BY DEF Valid, Invalid

LEMMA InvInit == Init => DrainInv
<1> SUFFICES ASSUME Init PROVE DrainInv
  OBVIOUS
<1>1. TypeOK
  BY CaptureAssumption DEF Init, TypeOK, Points
<1>2. LockInv /\ WorkerInv
  BY CaptureAssumption
     DEF Init, LockInv, WorkerInv, Knows, Holding, ItemPoints, Cleaning
<1>3. FilesInv
  BY RecordedEmpty DEF Init, FilesInv, NothingLost
<1> QED BY <1>1, <1>2, <1>3 DEF DrainInv

-----------------------------------------------------------------------------
(* Types. *)

\* Batches are sets of markers, or of receipts without one.
LEMMA Batches ==
  ASSUME TypeOK
  PROVE  /\ \A b \in CleanupBatches : b \subseteq done /\ b \subseteq Receipts
         /\ \A b \in DrainBatches : b \subseteq source /\ b \subseteq Receipts
BY DEF TypeOK, CleanupBatches, DrainBatches

\* The receipt in hand is a receipt.
HasItem ==
  \A w \in Workers :
    pc[w] \in {"load", "persist", "mark", "letter", "retire"} => item[w] \in Receipts

LEMMA TypeStep == TypeOK /\ HasItem /\ [Next]_vars => TypeOK'
<1> SUFFICES ASSUME TypeOK, HasItem, [Next]_vars PROVE TypeOK'
  OBVIOUS
<1> USE CaptureAssumption
    DEF TypeOK, HasItem, Goto, Forget, NextItem, Points, Holding, ItemPoints,
        Cleaning, files, local
<1>1. ASSUME NEW r \in Receipts, Publish(r) PROVE TypeOK'
  BY <1>1 DEF Publish
<1>2. ASSUME NEW w \in Workers, Start(w) PROVE TypeOK'
  BY <1>2 DEF Start
<1>3. ASSUME NEW w \in Workers, Busy(w) PROVE TypeOK'
  BY <1>3 DEF Busy
<1>4. ASSUME NEW w \in Workers, Crash(w) PROVE TypeOK'
  BY <1>4 DEF Crash
<1>5. ASSUME NEW w \in Workers, Acquire(w) PROVE TypeOK'
  BY <1>5, Batches DEF Acquire
<1>6. ASSUME NEW w \in Workers, CleanSource(w) PROVE TypeOK'
  <2>1. PICK r \in work[w] :
          /\ source' = source \ {r}
          /\ item' = [item EXCEPT ![w] = r]
          /\ work' = [work EXCEPT ![w] = @ \ {r}]
    BY <1>6 DEF CleanSource
  <2>2. r \in Receipts /\ work[w] \ {r} \in SUBSET Receipts
    BY <2>1
  <2>3. pc' \in [Workers -> Points]
    BY <1>6 DEF CleanSource
  <2> QED BY <1>6, <2>1, <2>2, <2>3 DEF CleanSource
<1>7. ASSUME NEW w \in Workers, Unmark(w) PROVE TypeOK'
  BY <1>7 DEF Unmark
<1>8. ASSUME NEW w \in Workers, List(w) PROVE TypeOK'
  BY <1>8, Batches DEF List
<1>9. ASSUME NEW w \in Workers, Claim(w) PROVE TypeOK'
  BY <1>9 DEF Claim
<1>10. ASSUME NEW w \in Workers, Load(w) PROVE TypeOK'
  BY <1>10 DEF Load
<1>11. ASSUME NEW w \in Workers, Persist(w) PROVE TypeOK'
  <2>1. log' \in Seq(Entries)
    BY <1>11, ReceiptEntryType, RecordedAppend DEF Persist
  <2> QED BY <1>11, <2>1 DEF Persist
<1>12. ASSUME NEW w \in Workers, mark_completed(w) PROVE TypeOK'
  BY <1>12 DEF mark_completed
<1>13. ASSUME NEW w \in Workers, dead_letter(w) PROVE TypeOK'
  BY <1>13 DEF dead_letter
<1>14. ASSUME NEW w \in Workers, Retire(w) PROVE TypeOK'
  BY <1>14 DEF Retire
<1>15. ASSUME NEW w \in Workers, Reconcile(w) PROVE TypeOK'
  BY <1>15 DEF Reconcile
<1>16. ASSUME NEW w \in Workers, Project(w) PROVE TypeOK'
  <2>1. PICK fp \in Missing(copy[w]) :
          /\ copy' = [copy EXCEPT ![w] = Append(@, Projection(@, fp))]
          /\ log' = copy'[w]
    BY <1>16 DEF Project
  <2>2. Append(copy[w], Projection(copy[w], fp)) \in Seq(Entries)
    BY ProjectionType, RecordedAppend
  <2> QED BY <1>16, <2>1, <2>2 DEF Project
<1>17. ASSUME NEW w \in Workers, Reconciled(w) PROVE TypeOK'
  BY <1>17, Batches DEF Reconciled
<1>18. ASSUME NEW w \in Workers, Release(w) PROVE TypeOK'
  BY <1>18 DEF Release
<1>19. ASSUME NEW w \in Workers, FailItem(w) PROVE TypeOK'
  BY <1>19 DEF FailItem
<1>20. ASSUME NEW w \in Workers, FailDrain(w) PROVE TypeOK'
  BY <1>20 DEF FailDrain
<1>21. ASSUME Age PROVE TypeOK'
  BY <1>21 DEF Age
<1>22. ASSUME UNCHANGED vars PROVE TypeOK'
  BY <1>22 DEF vars
<1> QED BY <1>1, <1>2, <1>3, <1>4, <1>5, <1>6, <1>7, <1>8, <1>9, <1>10, <1>11, <1>12, <1>13, <1>14, <1>15, <1>16, <1>17, <1>18, <1>19, <1>20, <1>21, <1>22
        DEF Next, Step

-----------------------------------------------------------------------------
(* One step preserves the invariant. *)

LEMMA Typed == DrainInv => HasItem
BY ClassSets DEF DrainInv, WorkerInv, Knows, HasItem

\* A step of the lock's holder concerns no other worker.
LEMMA HolderStep ==
  ASSUME DrainInv, NEW w \in Workers, lock = w,
         \A v \in Workers \ {w} :
           pc'[v] = pc[v] /\ work'[v] = work[v] /\ item'[v] = item[v],
         pc'[w] \in Holding => lock' = w,
         Knows(w)'
  PROVE  LockInv' /\ WorkerInv'
<1>1. \A v \in Workers \ {w} : pc'[v] \notin Holding
  BY DEF DrainInv, LockInv
<1>2. LockInv'
  BY <1>1 DEF LockInv
<1>3. ASSUME NEW v \in Workers \ {w} PROVE Knows(v)'
  <2>1. Knows(v)
    BY DEF DrainInv, WorkerInv
  <2> QED BY <1>1, <1>3, <2>1 DEF Knows, Holding, ItemPoints, Cleaning
<1>4. WorkerInv'
  BY <1>3 DEF WorkerInv
<1> QED BY <1>2, <1>4

LEMMA InvStep == DrainInv /\ [Next]_vars => DrainInv'
<1> SUFFICES ASSUME DrainInv, [Next]_vars PROVE DrainInv'
  OBVIOUS
<1>0. TypeOK'
  BY Typed, TypeStep DEF DrainInv
<1> DEFINE Rest == LockInv /\ FilesInv /\ WorkerInv
<1> USE CaptureAssumption DEF Goto, Forget, NextItem, files, local
<1>1. ASSUME NEW r \in Receipts, Publish(r) PROVE Rest'
  <2>1. LockInv' /\ FilesInv'
    BY <1>1 DEF Publish, DrainInv, LockInv, FilesInv, NothingLost
  <2>2. WorkerInv'
    BY <1>1 DEF Publish, DrainInv, WorkerInv, Knows
  <2> QED BY <2>1, <2>2
<1>2. ASSUME NEW w \in Workers, Start(w) \/ Busy(w) PROVE Rest'
  <2>1. LockInv' /\ FilesInv'
    BY <1>2 DEF Start, Busy, DrainInv, TypeOK, LockInv, FilesInv, NothingLost,
                Holding, ItemPoints, Cleaning
  <2>2. ASSUME NEW v \in Workers PROVE Knows(v)'
    <3>1. Knows(v) /\ Knows(w)
      BY DEF DrainInv, WorkerInv
    <3>2. CASE v = w
      BY <1>2, <3>1, <3>2 DEF Start, Busy, DrainInv, TypeOK, Knows, Points, Holding,
                              ItemPoints, Cleaning
    <3>3. CASE v # w
      BY <1>2, <3>1, <3>3 DEF Start, Busy, DrainInv, TypeOK, Knows
    <3> QED BY <3>2, <3>3
  <2> QED BY <2>1, <2>2 DEF WorkerInv
<1>3. ASSUME NEW w \in Workers, Crash(w) PROVE Rest'
  <2>1. LockInv' /\ FilesInv'
    BY <1>3 DEF Crash, DrainInv, TypeOK, LockInv, FilesInv, NothingLost,
                Holding, ItemPoints, Cleaning
  <2>2. WorkerInv'
    BY <1>3 DEF Crash, DrainInv, TypeOK, WorkerInv, Knows, Points, Holding,
                ItemPoints, Cleaning
  <2> QED BY <2>1, <2>2
<1>4. ASSUME NEW w \in Workers, Acquire(w) PROVE Rest'
  <2>1. \A v \in Workers : pc[v] \notin Holding
    BY <1>4 DEF Acquire, DrainInv, LockInv
  <2>2. LockInv' /\ FilesInv'
    BY <1>4, <2>1 DEF Acquire, DrainInv, TypeOK, LockInv, FilesInv, NothingLost
  <2>3. PICK b \in CleanupBatches : work' = [work EXCEPT ![w] = b]
    BY <1>4 DEF Acquire
  <2>4. b \subseteq done /\ b \subseteq Receipts
    BY Batches DEF DrainInv
  <2>5. ASSUME NEW v \in Workers PROVE Knows(v)'
    <3>1. Knows(v) /\ Knows(w)
      BY DEF DrainInv, WorkerInv
    <3>2. CASE v = w
      <4>1. item'[w] = None /\ pc'[w] = "clean" /\ work'[w] = b /\ done' = done
        BY <1>4, <2>3, <3>1 DEF Acquire, DrainInv, TypeOK, Knows, Points
      <4> QED BY <2>4, <3>2, <4>1 DEF Knows, ItemPoints, Cleaning
    <3>3. CASE v # w
      BY <1>4, <2>3, <3>1, <3>3 DEF Acquire, DrainInv, TypeOK, Knows
    <3> QED BY <3>2, <3>3
  <2> QED BY <2>2, <2>5 DEF WorkerInv
<1>5. ASSUME NEW w \in Workers, CleanSource(w) PROVE Rest'
  <2>1. pc[w] \in Holding /\ lock = w
    BY <1>5 DEF CleanSource, DrainInv, LockInv, Holding, ItemPoints, Cleaning
  <2>2. Knows(w)
    BY DEF DrainInv, WorkerInv
  <2>3. PICK r \in work[w] :
          /\ source' = source \ {r}
          /\ item' = [item EXCEPT ![w] = r]
          /\ work' = [work EXCEPT ![w] = @ \ {r}]
    BY <1>5 DEF CleanSource
  <2>4. r \in Recorded(log)
    BY <1>5, <2>2, <2>3 DEF CleanSource, Knows, Cleaning, DrainInv, FilesInv
  <2>5. Knows(w)'
    BY <1>5, <2>1, <2>2, <2>3, <2>4 DEF CleanSource, DrainInv, TypeOK, Knows, Points, Holding, ItemPoints,
             Cleaning
  <2>6. FilesInv'
    BY <1>5, <2>1, <2>2, <2>3, <2>4 DEF CleanSource, DrainInv, TypeOK, FilesInv, NothingLost, Knows
  <2>7. /\ \A v \in Workers \ {w} :
             pc'[v] = pc[v] /\ work'[v] = work[v] /\ item'[v] = item[v]
        /\ pc'[w] \in Holding => lock' = w
    BY <1>5, <2>1, <2>3 DEF CleanSource, DrainInv, TypeOK, Holding, ItemPoints, Cleaning
  <2> QED BY <2>1, <2>5, <2>6, <2>7, HolderStep
<1>6. ASSUME NEW w \in Workers, Unmark(w) PROVE Rest'
  <2>1. pc[w] \in Holding /\ lock = w
    BY <1>6 DEF Unmark, DrainInv, LockInv, Holding, ItemPoints, Cleaning
  <2>2. Knows(w)
    BY DEF DrainInv, WorkerInv
  <2>5. Knows(w)'
    BY <1>6, <2>1, <2>2 DEF Unmark, DrainInv, TypeOK, Knows, Points, Holding, ItemPoints,
             Cleaning
  <2>6. FilesInv'
    BY <1>6, <2>1, <2>2 DEF Unmark, DrainInv, TypeOK, FilesInv, NothingLost, Knows
  <2>7. /\ \A v \in Workers \ {w} :
             pc'[v] = pc[v] /\ work'[v] = work[v] /\ item'[v] = item[v]
        /\ pc'[w] \in Holding => lock' = w
    BY <1>6, <2>1 DEF Unmark, DrainInv, TypeOK, Holding, ItemPoints, Cleaning
  <2> QED BY <2>1, <2>5, <2>6, <2>7, HolderStep
<1>7. ASSUME NEW w \in Workers, List(w) PROVE Rest'
  <2>1. pc[w] \in Holding /\ lock = w
    BY <1>7 DEF List, DrainInv, LockInv, Holding, ItemPoints, Cleaning
  <2>2. Knows(w)
    BY DEF DrainInv, WorkerInv
  <2>3. PICK b \in DrainBatches : work' = [work EXCEPT ![w] = b]
    BY <1>7 DEF List
  <2>4. b \subseteq source /\ b \subseteq Receipts
    BY Batches DEF DrainInv
  <2>5. Knows(w)'
    BY <1>7, <2>1, <2>2, <2>3, <2>4 DEF List, DrainInv, TypeOK, Knows, Points, Holding, ItemPoints,
             Cleaning
  <2>6. FilesInv'
    BY <1>7, <2>1, <2>2 DEF List, DrainInv, TypeOK, FilesInv, NothingLost, Knows
  <2>7. /\ \A v \in Workers \ {w} :
             pc'[v] = pc[v] /\ work'[v] = work[v] /\ item'[v] = item[v]
        /\ pc'[w] \in Holding => lock' = w
    BY <1>7, <2>1, <2>3 DEF List, DrainInv, TypeOK, Holding, ItemPoints, Cleaning
  <2> QED BY <2>1, <2>5, <2>6, <2>7, HolderStep
<1>8. ASSUME NEW w \in Workers, Claim(w) PROVE Rest'
  <2>1. pc[w] \in Holding /\ lock = w
    BY <1>8 DEF Claim, DrainInv, LockInv, Holding, ItemPoints, Cleaning
  <2>2. Knows(w)
    BY DEF DrainInv, WorkerInv
  <2>3. PICK r \in work[w] :
          /\ work' = [work EXCEPT ![w] = @ \ {r}]
          /\ item' = [item EXCEPT ![w] = IF Class[r] = "unreadable" THEN None ELSE r]
          /\ Goto(w, CASE Class[r] = "valid" -> "load"
                       [] Class[r] = "invalid" -> "letter"
                       [] OTHER -> "claim")
    BY <1>8 DEF Claim
  <2>4. r \in Receipts /\ r \in source
    BY <1>8, <2>2, <2>3 DEF Claim, Knows, ItemPoints, DrainInv, TypeOK
  <2>5. Knows(w)'
    BY <1>8, <2>1, <2>2, <2>3, <2>4 DEF Claim, DrainInv, TypeOK, Knows, Points, Holding, ItemPoints,
             Cleaning, Valid, Invalid
  <2>6. FilesInv'
    BY <1>8, <2>1, <2>2 DEF Claim, DrainInv, TypeOK, FilesInv, NothingLost, Knows
  <2>7. /\ \A v \in Workers \ {w} :
             pc'[v] = pc[v] /\ work'[v] = work[v] /\ item'[v] = item[v]
        /\ pc'[w] \in Holding => lock' = w
    BY <1>8, <2>1, <2>3 DEF Claim, DrainInv, TypeOK, Holding, ItemPoints, Cleaning
  <2> QED BY <2>1, <2>5, <2>6, <2>7, HolderStep
<1>9. ASSUME NEW w \in Workers, Load(w) PROVE Rest'
  <2>1. pc[w] \in Holding /\ lock = w
    BY <1>9 DEF Load, DrainInv, LockInv, Holding, ItemPoints, Cleaning
  <2>2. Knows(w)
    BY DEF DrainInv, WorkerInv
  <2>5. Knows(w)'
    BY <1>9, <2>1, <2>2 DEF Load, DrainInv, TypeOK, Knows, Points, Holding, ItemPoints,
             Cleaning
  <2>6. FilesInv'
    BY <1>9, <2>1, <2>2 DEF Load, DrainInv, TypeOK, FilesInv, NothingLost, Knows
  <2>7. /\ \A v \in Workers \ {w} :
             pc'[v] = pc[v] /\ work'[v] = work[v] /\ item'[v] = item[v]
        /\ pc'[w] \in Holding => lock' = w
    BY <1>9, <2>1 DEF Load, DrainInv, TypeOK, Holding, ItemPoints, Cleaning
  <2> QED BY <2>1, <2>5, <2>6, <2>7, HolderStep
<1>10. ASSUME NEW w \in Workers, Persist(w) PROVE Rest'
  <2>1. pc[w] \in Holding /\ lock = w
    BY <1>10 DEF Persist, DrainInv, LockInv, Holding, ItemPoints, Cleaning
  <2>2. Knows(w)
    BY DEF DrainInv, WorkerInv
  <2>3. item[w] \in Valid /\ item[w] \in Receipts /\ item[w] \in source
        /\ item[w] \notin Recorded(log) /\ copy[w] = log
    BY <1>10, <2>2, ClassSets DEF Persist, Knows
  <2>4. Recorded(log') = Recorded(log) \union {item[w]} /\ OnceIn(log')
    <3>1. /\ log \in Seq(Entries) /\ OnceIn(log)
          /\ log' = Append(log, ReceiptEntry(item[w]))
      BY <1>10, <2>3 DEF Persist, DrainInv, TypeOK, FilesInv
    <3>2. /\ ReceiptEntry(item[w]) \in Entries
          /\ ReceiptEntry(item[w]).receipt = item[w] /\ item[w] # None
      BY <2>3, ReceiptEntryType
    <3>3. OnceIn(log')
      BY <2>3, <3>1, <3>2, OnceAppend
    <3>4. Recorded(log') = Recorded(log) \union ({item[w]} \ {None})
      BY <3>1, <3>2, RecordedAppend
    <3> QED BY <3>2, <3>3, <3>4
  <2>5. Knows(w)'
    BY <1>10, <2>1, <2>2, <2>3, <2>4 DEF Persist, DrainInv, TypeOK, Knows, Points, Holding, ItemPoints,
             Cleaning
  <2>6. FilesInv'
    BY <1>10, <2>1, <2>2, <2>3, <2>4 DEF Persist, DrainInv, TypeOK, FilesInv, NothingLost, Knows
  <2>7. /\ \A v \in Workers \ {w} :
             pc'[v] = pc[v] /\ work'[v] = work[v] /\ item'[v] = item[v]
        /\ pc'[w] \in Holding => lock' = w
    BY <1>10, <2>1, <2>3 DEF Persist, DrainInv, TypeOK, Holding, ItemPoints, Cleaning
  <2> QED BY <2>1, <2>5, <2>6, <2>7, HolderStep
<1>11. ASSUME NEW w \in Workers, mark_completed(w) PROVE Rest'
  <2>1. pc[w] \in Holding /\ lock = w
    BY <1>11 DEF mark_completed, DrainInv, LockInv, Holding, ItemPoints, Cleaning
  <2>2. Knows(w)
    BY DEF DrainInv, WorkerInv
  <2>5. Knows(w)'
    BY <1>11, <2>1, <2>2 DEF mark_completed, DrainInv, TypeOK, Knows, Points, Holding, ItemPoints,
             Cleaning
  <2>6. FilesInv'
    BY <1>11, <2>1, <2>2 DEF mark_completed, DrainInv, TypeOK, FilesInv, NothingLost, Knows
  <2>7. /\ \A v \in Workers \ {w} :
             pc'[v] = pc[v] /\ work'[v] = work[v] /\ item'[v] = item[v]
        /\ pc'[w] \in Holding => lock' = w
    BY <1>11, <2>1 DEF mark_completed, DrainInv, TypeOK, Holding, ItemPoints, Cleaning
  <2> QED BY <2>1, <2>5, <2>6, <2>7, HolderStep
<1>12. ASSUME NEW w \in Workers, dead_letter(w) PROVE Rest'
  <2>1. pc[w] \in Holding /\ lock = w
    BY <1>12 DEF dead_letter, DrainInv, LockInv, Holding, ItemPoints, Cleaning
  <2>2. Knows(w)
    BY DEF DrainInv, WorkerInv
  <2>5. Knows(w)'
    BY <1>12, <2>1, <2>2 DEF dead_letter, DrainInv, TypeOK, Knows, Points, Holding, ItemPoints,
             Cleaning
  <2>6. FilesInv'
    BY <1>12, <2>1, <2>2 DEF dead_letter, DrainInv, TypeOK, FilesInv, NothingLost, Knows
  <2>7. /\ \A v \in Workers \ {w} :
             pc'[v] = pc[v] /\ work'[v] = work[v] /\ item'[v] = item[v]
        /\ pc'[w] \in Holding => lock' = w
    BY <1>12, <2>1 DEF dead_letter, DrainInv, TypeOK, Holding, ItemPoints, Cleaning
  <2> QED BY <2>1, <2>5, <2>6, <2>7, HolderStep
<1>13. ASSUME NEW w \in Workers, Retire(w) PROVE Rest'
  <2>1. pc[w] \in Holding /\ lock = w
    BY <1>13 DEF Retire, DrainInv, LockInv, Holding, ItemPoints, Cleaning
  <2>2. Knows(w)
    BY DEF DrainInv, WorkerInv
  <2>5. Knows(w)'
    BY <1>13, <2>1, <2>2 DEF Retire, DrainInv, TypeOK, Knows, Points, Holding, ItemPoints,
             Cleaning
  <2>6. FilesInv'
    BY <1>13, <2>1, <2>2 DEF Retire, DrainInv, TypeOK, FilesInv, NothingLost, Knows
  <2>7. /\ \A v \in Workers \ {w} :
             pc'[v] = pc[v] /\ work'[v] = work[v] /\ item'[v] = item[v]
        /\ pc'[w] \in Holding => lock' = w
    BY <1>13, <2>1 DEF Retire, DrainInv, TypeOK, Holding, ItemPoints, Cleaning
  <2> QED BY <2>1, <2>5, <2>6, <2>7, HolderStep
<1>14. ASSUME NEW w \in Workers, Reconcile(w) PROVE Rest'
  <2>1. pc[w] \in Holding /\ lock = w
    BY <1>14 DEF Reconcile, DrainInv, LockInv, Holding, ItemPoints, Cleaning
  <2>2. Knows(w)
    BY DEF DrainInv, WorkerInv
  <2>5. Knows(w)'
    BY <1>14, <2>1, <2>2 DEF Reconcile, DrainInv, TypeOK, Knows, Points, Holding, ItemPoints,
             Cleaning
  <2>6. FilesInv'
    BY <1>14, <2>1, <2>2 DEF Reconcile, DrainInv, TypeOK, FilesInv, NothingLost, Knows
  <2>7. /\ \A v \in Workers \ {w} :
             pc'[v] = pc[v] /\ work'[v] = work[v] /\ item'[v] = item[v]
        /\ pc'[w] \in Holding => lock' = w
    BY <1>14, <2>1 DEF Reconcile, DrainInv, TypeOK, Holding, ItemPoints, Cleaning
  <2> QED BY <2>1, <2>5, <2>6, <2>7, HolderStep
<1>15. ASSUME NEW w \in Workers, Project(w) PROVE Rest'
  <2>1. pc[w] \in Holding /\ lock = w
    BY <1>15 DEF Project, DrainInv, LockInv, Holding, ItemPoints, Cleaning
  <2>2. Knows(w)
    BY DEF DrainInv, WorkerInv
  <2>3. PICK fp \in Missing(copy[w]) :
          /\ copy' = [copy EXCEPT ![w] = Append(@, Projection(@, fp))]
          /\ log' = copy'[w]
    BY <1>15 DEF Project
  <2>4. copy'[w] = log' /\ Recorded(log') = Recorded(log) /\ OnceIn(log')
    <3>1. copy[w] = log /\ log \in Seq(Entries) /\ OnceIn(log)
      BY <1>15, <2>2 DEF Project, Knows, DrainInv, TypeOK, FilesInv
    <3>2. log' = Append(log, Projection(log, fp)) /\ fp \in Missing(log)
      BY <2>3, <3>1 DEF DrainInv, TypeOK
    <3>3. Projection(log, fp) \in Entries /\ Projection(log, fp).receipt = None
      BY <3>1, <3>2, ProjectionType
    <3>4. None \notin Recorded(log)
      BY DEF Recorded
    <3>5. OnceIn(log')
      BY <3>1, <3>2, <3>3, <3>4, OnceAppend
    <3>6. Recorded(log') = Recorded(log) \union ({None} \ {None})
      BY <3>1, <3>2, <3>3, RecordedAppend
    <3> QED BY <2>3, <3>5, <3>6
  <2>5. Knows(w)'
    BY <1>15, <2>1, <2>2, <2>3, <2>4 DEF Project, DrainInv, TypeOK, Knows, Points, Holding, ItemPoints,
             Cleaning
  <2>6. FilesInv'
    BY <1>15, <2>1, <2>2, <2>3, <2>4 DEF Project, DrainInv, TypeOK, FilesInv, NothingLost, Knows
  <2>7. /\ \A v \in Workers \ {w} :
             pc'[v] = pc[v] /\ work'[v] = work[v] /\ item'[v] = item[v]
        /\ pc'[w] \in Holding => lock' = w
    BY <1>15, <2>1, <2>3 DEF Project, DrainInv, TypeOK, Holding, ItemPoints, Cleaning
  <2> QED BY <2>1, <2>5, <2>6, <2>7, HolderStep
<1>16. ASSUME NEW w \in Workers, Reconciled(w) PROVE Rest'
  <2>1. pc[w] \in Holding /\ lock = w
    BY <1>16 DEF Reconciled, DrainInv, LockInv, Holding, ItemPoints, Cleaning
  <2>2. Knows(w)
    BY DEF DrainInv, WorkerInv
  <2>3. PICK b \in CleanupBatches : work' = [work EXCEPT ![w] = b]
    BY <1>16 DEF Reconciled
  <2>4. b \subseteq done /\ b \subseteq Receipts
    BY Batches DEF DrainInv
  <2>5. Knows(w)'
    BY <1>16, <2>1, <2>2, <2>3, <2>4 DEF Reconciled, DrainInv, TypeOK, Knows, Points, Holding, ItemPoints,
             Cleaning
  <2>6. FilesInv'
    BY <1>16, <2>1, <2>2 DEF Reconciled, DrainInv, TypeOK, FilesInv, NothingLost, Knows
  <2>7. /\ \A v \in Workers \ {w} :
             pc'[v] = pc[v] /\ work'[v] = work[v] /\ item'[v] = item[v]
        /\ pc'[w] \in Holding => lock' = w
    BY <1>16, <2>1, <2>3 DEF Reconciled, DrainInv, TypeOK, Holding, ItemPoints, Cleaning
  <2> QED BY <2>1, <2>5, <2>6, <2>7, HolderStep
<1>17. ASSUME NEW w \in Workers, Release(w) PROVE Rest'
  <2>1. pc[w] \in Holding /\ lock = w
    BY <1>17 DEF Release, DrainInv, LockInv, Holding, ItemPoints, Cleaning
  <2>2. Knows(w)
    BY DEF DrainInv, WorkerInv
  <2>5. Knows(w)'
    BY <1>17, <2>1, <2>2 DEF Release, DrainInv, TypeOK, Knows, Points, Holding, ItemPoints,
             Cleaning
  <2>6. FilesInv'
    BY <1>17, <2>1, <2>2 DEF Release, DrainInv, TypeOK, FilesInv, NothingLost, Knows
  <2>7. /\ \A v \in Workers \ {w} :
             pc'[v] = pc[v] /\ work'[v] = work[v] /\ item'[v] = item[v]
        /\ pc'[w] \in Holding => lock' = w
    BY <1>17, <2>1 DEF Release, DrainInv, TypeOK, Holding, ItemPoints, Cleaning
  <2> QED BY <2>1, <2>5, <2>6, <2>7, HolderStep
<1>18. ASSUME NEW w \in Workers, FailItem(w) PROVE Rest'
  <2>1. pc[w] \in Holding /\ lock = w
    BY <1>18 DEF FailItem, DrainInv, LockInv, Holding, ItemPoints, Cleaning
  <2>2. Knows(w)
    BY DEF DrainInv, WorkerInv
  <2>5. Knows(w)'
    BY <1>18, <2>1, <2>2 DEF FailItem, DrainInv, TypeOK, Knows, Points, Holding, ItemPoints,
             Cleaning
  <2>6. FilesInv'
    BY <1>18, <2>1, <2>2 DEF FailItem, DrainInv, TypeOK, FilesInv, NothingLost, Knows
  <2>7. /\ \A v \in Workers \ {w} :
             pc'[v] = pc[v] /\ work'[v] = work[v] /\ item'[v] = item[v]
        /\ pc'[w] \in Holding => lock' = w
    BY <1>18, <2>1 DEF FailItem, DrainInv, TypeOK, Holding, ItemPoints, Cleaning
  <2> QED BY <2>1, <2>5, <2>6, <2>7, HolderStep
<1>19. ASSUME NEW w \in Workers, FailDrain(w) PROVE Rest'
  <2>1. pc[w] \in Holding /\ lock = w
    BY <1>19 DEF FailDrain, DrainInv, LockInv, Holding, ItemPoints, Cleaning
  <2>2. Knows(w)
    BY DEF DrainInv, WorkerInv
  <2>5. Knows(w)'
    BY <1>19, <2>1, <2>2 DEF FailDrain, DrainInv, TypeOK, Knows, Points, Holding, ItemPoints,
             Cleaning
  <2>6. FilesInv'
    BY <1>19, <2>1, <2>2 DEF FailDrain, DrainInv, TypeOK, FilesInv, NothingLost, Knows
  <2>7. /\ \A v \in Workers \ {w} :
             pc'[v] = pc[v] /\ work'[v] = work[v] /\ item'[v] = item[v]
        /\ pc'[w] \in Holding => lock' = w
    BY <1>19, <2>1 DEF FailDrain, DrainInv, TypeOK, Holding, ItemPoints, Cleaning
  <2> QED BY <2>1, <2>5, <2>6, <2>7, HolderStep
<1>20. ASSUME Age PROVE Rest'
  <2>1. LockInv' /\ FilesInv'
    BY <1>20 DEF Age, DrainInv, LockInv, FilesInv, NothingLost
  <2>2. WorkerInv'
    BY <1>20 DEF Age, DrainInv, WorkerInv, Knows
  <2> QED BY <2>1, <2>2
<1>21. ASSUME UNCHANGED vars PROVE Rest'
  <2>1. LockInv' /\ FilesInv'
    BY <1>21 DEF vars, DrainInv, LockInv, FilesInv, NothingLost
  <2>2. WorkerInv'
    BY <1>21 DEF vars, DrainInv, WorkerInv, Knows
  <2> QED BY <2>1, <2>2
<1>22. Rest'
  BY <1>1, <1>2, <1>3, <1>4, <1>5, <1>6, <1>7, <1>8, <1>9, <1>10, <1>11, <1>12, <1>13, <1>14, <1>15, <1>16, <1>17, <1>18, <1>19, <1>20, <1>21
     DEF Next, Step
<1> QED BY <1>0, <1>22 DEF DrainInv

-----------------------------------------------------------------------------
(* What follows. *)

LEMMA InvHolds == Spec => []DrainInv
BY InvInit, InvStep, PTL DEF Spec

\* Every variable keeps its type; in particular a drain never loses track of
\* the receipt it claimed.
THEOREM CaptureTypes == Spec => []TypeOK
BY InvHolds, PTL DEF DrainInv

\* Drained receipts are in the log exactly once, a completion marker is only
\* ever there for a receipt in the log, and no published receipt is lost,
\* whatever workers die and whatever file operations fail in between.
THEOREM CaptureSafe == Spec => []DrainSafe
<1>1. DrainInv => DrainSafe
  BY DEF DrainInv, FilesInv, RecordedOnce, OnceIn, MarkerMeansRecorded, DrainSafe
<1> QED BY <1>1, InvHolds, PTL

\* The canonical log is append-only under any number of drains: what a worker
\* persists extends what is there.
THEOREM CaptureAppends == Spec => LogOnlyGrows
<1> DEFINE Grows == Len(log) <= Len(log') /\ \A i \in DOMAIN log : log'[i] = log[i]
<1>1. ASSUME DrainInv, [Next]_vars PROVE Grows
  <2>0. log \in Seq(Entries) /\ Len(log) \in Nat
    BY <1>1 DEF DrainInv, TypeOK
  <2>1. ASSUME NEW w \in Workers, Persist(w) PROVE Grows
    <3>1. item[w] \in Receipts /\ copy[w] = log
      BY <1>1, <2>1, ClassSets DEF Persist, DrainInv, WorkerInv, Knows
    <3> QED BY <2>0, <2>1, <3>1, ReceiptEntryType, RecordedAppend DEF Persist
  <2>2. ASSUME NEW w \in Workers, Project(w) PROVE Grows
    <3>1. copy[w] = log
      BY <1>1, <2>2 DEF Project, DrainInv, WorkerInv, Knows
    <3>2. PICK fp \in Missing(log) : log' = Append(log, Projection(log, fp))
      BY <1>1, <2>2, <3>1 DEF Project, DrainInv, TypeOK
    <3> QED BY <2>0, <3>2, ProjectionType, RecordedAppend
  <2>3. ASSUME log' = log PROVE Grows
    BY <2>0, <2>3
  <2>4. (\E w \in Workers : Persist(w) \/ Project(w)) \/ log' = log
    BY <1>1 DEF Next, Step, vars, files, Publish, Start, Acquire, Busy, CleanSource,
       Unmark, List, Claim, Load, mark_completed, dead_letter, Retire, Reconcile,
       Reconciled, Release, FailItem, FailDrain, Crash, Age
  <2> QED BY <2>1, <2>2, <2>3, <2>4
<1>2. DrainInv /\ [Next]_vars => [Grows]_vars
  BY <1>1
<1> QED BY <1>2, InvHolds, PTL DEF Spec, LogOnlyGrows

-----------------------------------------------------------------------------
(* The drain implements the ledger of receipts. *)

LEMMA LedgerInit == Init => Ledger!LInit
BY RecordedEmpty DEF Init, Ledger!LInit

\* A step that changes neither log, dead letters nor pending receipts.
Quiet ==
  /\ Recorded(log') = Recorded(log) /\ dead' = dead
  /\ source' \ (Recorded(log') \union dead') = source \ (Recorded(log) \union dead)

LEMMA QuietStutters == Quiet => UNCHANGED Ledger!lvars
BY Zenon DEF Quiet, Ledger!lvars

LEMMA LedgerStep ==
  ASSUME DrainInv, [Next]_vars
  PROVE  [Ledger!LNext]_(Ledger!lvars)
<1> DEFINE Goal == [Ledger!LNext]_(Ledger!lvars)
<1>1. ASSUME NEW r \in Receipts, Publish(r) PROVE Ledger!LPublish(r)
  BY <1>1 DEF Publish, DrainInv, FilesInv, Ledger!LPublish
<1>2. ASSUME NEW w \in Workers, Persist(w) PROVE \E r \in Receipts : Ledger!LRecord(r)
  <2>1. /\ item[w] \in Valid \intersect source /\ item[w] \in Receipts
        /\ item[w] \notin Recorded(log) /\ copy[w] = log
    BY <1>2, ClassSets DEF Persist, DrainInv, WorkerInv, Knows
  <2>2. item[w] \notin dead
    BY <2>1 DEF DrainInv, FilesInv, Valid, Invalid
  <2>3. Recorded(log') = Recorded(log) \union {item[w]}
    <3>1. log \in Seq(Entries) /\ log' = Append(log, ReceiptEntry(item[w]))
      BY <1>2, <2>1 DEF Persist, DrainInv, TypeOK
    <3>2. /\ ReceiptEntry(item[w]) \in Entries
          /\ ReceiptEntry(item[w]).receipt = item[w] /\ item[w] # None
      BY <2>1, ReceiptEntryType, CaptureAssumption
    <3>3. Recorded(log') = Recorded(log) \union ({item[w]} \ {None})
      BY <3>1, <3>2, RecordedAppend
    <3> QED BY <3>2, <3>3
  <2>4. source' = source /\ dead' = dead
    BY <1>2 DEF Persist
  <2>5. Ledger!LRecord(item[w])
    BY <2>1, <2>2, <2>3, <2>4 DEF Ledger!LRecord
  <2> QED BY <2>1, <2>5
<1>3. ASSUME NEW w \in Workers, dead_letter(w)
      PROVE  Quiet \/ \E r \in Receipts : Ledger!LReject(r)
  <2>1. item[w] \in Invalid \intersect source /\ item[w] \in Receipts
    BY <1>3, ClassSets DEF dead_letter, DrainInv, WorkerInv, Knows
  <2>2. item[w] \notin Recorded(log)
    BY <2>1 DEF DrainInv, FilesInv, Valid, Invalid
  <2>3. source' = source /\ log' = log /\ dead' = dead \union {item[w]}
    BY <1>3 DEF dead_letter
  <2>4. CASE item[w] \in dead
    <3>1. dead' = dead
      BY <2>3, <2>4
    <3> QED BY <2>3, <3>1, Zenon DEF Quiet
  <2>5. CASE item[w] \notin dead
    <3>1. Ledger!LReject(item[w])
      BY <2>1, <2>2, <2>3, <2>5 DEF Ledger!LReject
    <3> QED BY <2>1, <3>1
  <2> QED BY <2>4, <2>5
<1>4. ASSUME NEW w \in Workers, Project(w) PROVE Quiet
  <2>1. copy[w] = log /\ log \in Seq(Entries)
    BY <1>4 DEF Project, DrainInv, TypeOK, WorkerInv, Knows
  <2>2. PICK fp \in Missing(log) : log' = Append(log, Projection(log, fp))
    BY <1>4, <2>1 DEF Project, DrainInv, TypeOK
  <2>3. Recorded(log') = Recorded(log) \union ({None} \ {None})
    BY <2>1, <2>2, ProjectionType, RecordedAppend
  <2>4. Recorded(log') = Recorded(log)
    BY <2>3
  <2>5. source' = source /\ dead' = dead
    BY <1>4 DEF Project
  <2> QED BY <2>4, <2>5, Zenon DEF Quiet
<1>5. ASSUME NEW w \in Workers, CleanSource(w) \/ Retire(w) PROVE Quiet
  <2>1. log' = log /\ dead' = dead
    BY <1>5 DEF CleanSource, Retire
  <2>2. PICK r : source' = source \ {r} /\ r \in Recorded(log) \union dead
    BY <1>5 DEF CleanSource, Retire, DrainInv, WorkerInv, Knows, FilesInv, Cleaning
  <2>3. source' \ (Recorded(log) \union dead) = source \ (Recorded(log) \union dead)
    BY <2>2
  <2> QED BY <2>1, <2>3, Zenon DEF Quiet
<1>6. ASSUME UNCHANGED <<source, log, dead>> PROVE Quiet
  BY <1>6 DEF Quiet
<1>7. \/ \E r \in Receipts : Publish(r)
      \/ \E w \in Workers : \/ Persist(w) \/ dead_letter(w) \/ Project(w)
                            \/ CleanSource(w) \/ Retire(w)
      \/ UNCHANGED <<source, log, dead>>
  BY DEF Next, Step, vars, files, Start, Acquire, Busy, Unmark, List, Claim, Load,
     mark_completed, Reconcile, Reconciled, Release, FailItem, FailDrain, Crash, Age
<1> QED BY <1>1, <1>2, <1>3, <1>4, <1>5, <1>6, <1>7, QuietStutters DEF Ledger!LNext

\* Seen from outside, every behaviour of hooks, workers, crashes and retries
\* is one where published receipts are recorded or rejected, once and for all.
THEOREM CaptureRefines == Spec => ImplementsLedger
<1>1. DrainInv /\ [Next]_vars => [Ledger!LNext]_(Ledger!lvars)
  BY LedgerStep
<1> QED BY <1>1, LedgerInit, InvHolds, PTL DEF Spec, ImplementsLedger, Ledger!LSpec

-----------------------------------------------------------------------------
(* The file lock (FileLock). *)

\* A holder created the sidecar that is there; nobody is about to remove a
\* sidecar it does not hold; what a writer loaded holds every confirmed update.
OwnerInv == \A p \in Procs : lpc[p] \in LockHolding => sidecar # NoSidecar /\ sidecar.owner = p
NoReclaimer == \A p \in Procs : lpc[p] \notin {"remove", "recreate"}
FreshCopy == \A p \in Procs : lpc[p] = "persist" => confirmed \subseteq loaded[p]

BootInv == LockTypeOK /\ OwnerInv /\ NoReclaimer /\ FreshCopy /\ NoLostUpdate

LEMMA LockTypeInit == LockInit => LockTypeOK
BY FileLockAssumption DEF LockInit, LockTypeOK, LockPoints

LEMMA LockTypeStep == LockTypeOK /\ [LockNext]_lockVars => LockTypeOK'
<1> SUFFICES ASSUME LockTypeOK, [LockNext]_lockVars PROVE LockTypeOK'
  OBVIOUS
<1> USE FileLockAssumption DEF LockTypeOK, MoveTo, LockPoints, LockHolding
<1>1. ASSUME NEW p \in Procs, BeginAcquire(p) PROVE LockTypeOK'
  BY <1>1 DEF BeginAcquire
<1>2. ASSUME NEW p \in Procs, Create(p) PROVE LockTypeOK'
  <2>1. CASE TryCreate(p)
    BY <1>2, <2>1 DEF Create, TryCreate
  <2>2. CASE ~TryCreate(p)
    BY <1>2, <2>2 DEF Create
  <2> QED BY <2>1, <2>2
<1>3. ASSUME NEW p \in Procs, Check(p) PROVE LockTypeOK'
  BY <1>3 DEF Check
<1>4. ASSUME NEW p \in Procs, Remove(p) PROVE LockTypeOK'
  BY <1>4 DEF Remove
<1>5. ASSUME NEW p \in Procs, Recreate(p) PROVE LockTypeOK'
  <2>1. CASE TryCreate(p)
    BY <1>5, <2>1 DEF Recreate, TryCreate
  <2>2. CASE ~TryCreate(p)
    BY <1>5, <2>2 DEF Recreate
  <2> QED BY <2>1, <2>2
<1>6. ASSUME NEW p \in Procs, LoadFile(p) PROVE LockTypeOK'
  BY <1>6 DEF LoadFile
<1>7. ASSUME NEW p \in Procs, PersistFile(p) PROVE LockTypeOK'
  BY <1>7 DEF PersistFile
<1>8. ASSUME NEW p \in Procs, DropLock(p) PROVE LockTypeOK'
  BY <1>8 DEF DropLock
<1>9. ASSUME NEW p \in Procs, CreateStampFails(p) PROVE LockTypeOK'
  BY <1>9 DEF CreateStampFails
<1>10. ASSUME NEW p \in Procs, Die(p) PROVE LockTypeOK'
  BY <1>10 DEF Die
<1>11. CASE GrowOld
  BY <1>11 DEF GrowOld
<1>12. CASE UNCHANGED lockVars
  BY <1>12 DEF lockVars
<1> QED BY <1>1, <1>2, <1>3, <1>4, <1>5, <1>6, <1>7, <1>8, <1>9, <1>10, <1>11, <1>12
        DEF LockNext, LockStep

\* Types hold with and without takeover.
THEOREM FileLockTypes == LockSpec => []LockTypeOK
BY LockTypeInit, LockTypeStep, PTL DEF LockSpec

LEMMA BootStep ==
  ASSUME AllowTakeover = FALSE
  PROVE  BootInv /\ [LockNext]_lockVars => BootInv'
<1> SUFFICES ASSUME BootInv, [LockNext]_lockVars PROVE BootInv'
  OBVIOUS
<1>0. LockTypeOK'
  BY LockTypeStep DEF BootInv
<1> DEFINE Rest == OwnerInv /\ NoReclaimer /\ FreshCopy /\ NoLostUpdate
<1> USE FileLockAssumption
    DEF BootInv, LockTypeOK, OwnerInv, NoReclaimer, FreshCopy, NoLostUpdate, MoveTo,
        LockPoints, LockHolding
<1>1. ASSUME NEW p \in Procs, BeginAcquire(p) PROVE Rest'
  BY <1>1 DEF BeginAcquire
<1>2. ASSUME NEW p \in Procs, Create(p) PROVE Rest'
  <2>1. ASSUME TryCreate(p) PROVE Rest'
    <3>1. \A q \in Procs : lpc[q] \notin LockHolding
      BY <2>1 DEF TryCreate
    <3>2. sidecar' # NoSidecar /\ sidecar'.owner = p
      <4>1. [owner |-> p, old |-> FALSE] \in [owner : Procs, old : BOOLEAN]
        OBVIOUS
      <4>2. sidecar' = [owner |-> p, old |-> FALSE]
        BY <2>1 DEF TryCreate
      <4> QED BY <4>1, <4>2
    <3>3. \A q \in Procs : q # p => lpc'[q] = lpc[q]
      BY <2>1 DEF TryCreate
    <3>4. lpc'[p] = "load"
      BY <2>1 DEF TryCreate
    <3> QED BY <1>2, <3>1, <3>2, <3>3, <3>4 DEF Create
  <2>2. ASSUME ~TryCreate(p) PROVE Rest'
    BY <1>2, <2>2 DEF Create
  <2> QED BY <2>1, <2>2
<1>3. ASSUME NEW p \in Procs, Check(p) PROVE Rest'
  BY <1>3 DEF Check
<1>4. ASSUME NEW p \in Procs, Remove(p) \/ Recreate(p) PROVE Rest'
  BY <1>4 DEF Remove, Recreate
<1>5. ASSUME NEW p \in Procs, LoadFile(p) PROVE Rest'
  BY <1>5 DEF LoadFile
<1>6. ASSUME NEW p \in Procs, PersistFile(p) PROVE Rest'
  BY <1>6 DEF PersistFile
<1>7. ASSUME NEW p \in Procs, DropLock(p) PROVE Rest'
  BY <1>7 DEF DropLock
<1>8. ASSUME NEW p \in Procs, CreateStampFails(p) PROVE Rest'
  BY <1>8 DEF CreateStampFails
<1>9. ASSUME NEW p \in Procs, Die(p) PROVE Rest'
  BY <1>9 DEF Die
<1>10. ASSUME GrowOld PROVE Rest'
  BY <1>10 DEF GrowOld
<1>11. ASSUME UNCHANGED lockVars PROVE Rest'
  BY <1>11 DEF lockVars
<1>12. Rest'
  BY <1>1, <1>2, <1>3, <1>4, <1>5, <1>6, <1>7, <1>8, <1>9, <1>10, <1>11
     DEF LockNext, LockStep
<1> QED BY <1>0, <1>12

\* acquire_bootstrap: one holder at a time and no acknowledged update lost,
\* whatever crashes and however old a sidecar grows.
THEOREM BootstrapSafe ==
  ASSUME AllowTakeover = FALSE
  PROVE  LockSpec => []LockSafe
<1>1. LockInit => BootInv
  BY LockTypeInit DEF LockInit, BootInv, OwnerInv, NoReclaimer, FreshCopy, NoLostUpdate, LockHolding
<1>2. BootInv => LockSafe
  BY DEF BootInv, OwnerInv, MutualExclusion, NoLostUpdate, LockSafe
<1> QED BY <1>1, <1>2, BootStep, PTL DEF LockSpec

\* acquire_bootstrap: Drop never removes a sidecar of another process.
THEOREM BootstrapDropsOwn ==
  ASSUME AllowTakeover = FALSE
  PROVE  LockSpec => DropsOwnSidecar
<1>1. LockInit => BootInv
  BY LockTypeInit DEF LockInit, BootInv, OwnerInv, NoReclaimer, FreshCopy, NoLostUpdate, LockHolding
<1>2. BootInv => \A p \in Procs : lpc[p] = "drop" => sidecar # NoSidecar /\ sidecar.owner = p
  BY DEF BootInv, OwnerInv, LockHolding
<1>3. BootInv /\ [LockNext]_lockVars =>
        [\A p \in Procs : lpc[p] = "drop" /\ lpc'[p] = "idle" =>
           sidecar # NoSidecar /\ sidecar.owner = p]_lockVars
  BY <1>2
<1> QED BY <1>1, <1>3, BootStep, PTL DEF LockSpec, DropsOwnSidecar

-----------------------------------------------------------------------------
(* Pairing projections (CaptureDrain).  A projection is determined by the    *)
(* receipts of its transaction that are recorded, they only become more, and *)
(* no text is written twice: so the one that fits the log is the last.       *)

SourcesOf(S, fp) == {r \in S : Fingerprint[r] = fp}
PhaseOf(S, fp, phases) == {r \in S : Fingerprint[r] = fp /\ Phase[r] \in phases}

LEMMA PhasesCounted ==
  ASSUME NEW l \in Seq(Entries), OnceIn(l), NEW fp, NEW phases
  PROVE  Cardinality(InPhase(l, fp, phases)) = Cardinality(PhaseOf(Recorded(l), fp, phases))
<1> DEFINE A == InPhase(l, fp, phases)
           B == PhaseOf(Recorded(l), fp, phases)
           f == [i \in A |-> l[i].receipt]
<1>0. DOMAIN l = 1..Len(l) /\ Len(l) \in Nat
  OBVIOUS
<1>1. A \subseteq 1..Len(l) /\ IsFiniteSet(A)
  <2>1. A \subseteq 1..Len(l)
    BY <1>0 DEF InPhase
  <2>2. IsFiniteSet(1..Len(l))
    BY <1>0, FS_Interval
  <2> QED BY <2>1, <2>2, FS_Subset
<1>2. \A i \in A : l[i].receipt \in B /\ l[i].receipt # None
  BY DEF InPhase, PhaseOf, Recorded
<1>3. \A b \in B : \E i \in A : l[i].receipt = b
  BY DEF InPhase, PhaseOf, Recorded
<1>4. \A i, j \in A : l[i].receipt = l[j].receipt => i = j
  BY <1>0, <1>1, <1>2 DEF OnceIn
<1> HIDE DEF A, B
<1>5. f \in Bijection(A, B)
  <2>1. f \in [A -> B]
    BY <1>2
  <2>2. \A b \in B : \E i \in A : f[i] = b
    BY <1>3
  <2>3. \A i, j \in A : f[i] = f[j] => i = j
    BY <1>4
  <2> HIDE DEF f
  <2>4. f \in Injection(A, B)
    BY <2>1, <2>3 DEF Injection, IsInjective
  <2>5. f \in Surjection(A, B)
    BY <2>1, <2>2 DEF Surjection
  <2> QED BY <2>4, <2>5 DEF Bijection
<1>6. ExistsBijection(A, B)
  BY <1>5 DEF ExistsBijection
<1> QED BY <1>1, <1>6, FS_Bijection DEF A, B

LEMMA ProjectionFields ==
  ASSUME NEW l, NEW fp
  PROVE  /\ Projection(l, fp).receipt = None
         /\ Projection(l, fp).pairing.fingerprint = fp
         /\ Projection(l, fp).pairing.sources = SourcesOf(Recorded(l), fp)
BY DEF Projection, SourcesOf

LEMMA SameSources ==
  ASSUME NEW l \in Seq(Entries), NEW m \in Seq(Entries), OnceIn(l), OnceIn(m), NEW fp,
         SourcesOf(Recorded(l), fp) = SourcesOf(Recorded(m), fp)
  PROVE  Projection(l, fp) = Projection(m, fp)
<1>1. \A S, ph : PhaseOf(S, fp, ph) = {r \in SourcesOf(S, fp) : Phase[r] \in ph}
  BY DEF PhaseOf, SourcesOf
<1>2. \A ph : PhaseOf(Recorded(l), fp, ph) = PhaseOf(Recorded(m), fp, ph)
  BY <1>1
<1>3. \A ph : Cardinality(InPhase(l, fp, ph)) = Cardinality(InPhase(m, fp, ph))
  BY <1>2, PhasesCounted
<1>4. reference_transaction_pairing(l, fp) = reference_transaction_pairing(m, fp)
  BY <1>3, Zenon DEF reference_transaction_pairing
<1> QED BY <1>4 DEF Projection, SourcesOf

LEMMA PrefixOf ==
  ASSUME NEW l \in Seq(Entries), NEW k \in 0..Len(l)
  PROVE  /\ SubSeq(l, 1, k) \in Seq(Entries) /\ Len(SubSeq(l, 1, k)) = k
         /\ \A i \in 1..k : SubSeq(l, 1, k)[i] = l[i]
         /\ Recorded(SubSeq(l, 1, k)) = {l[i].receipt : i \in 1..k} \ {None}
         /\ OnceIn(l) => OnceIn(SubSeq(l, 1, k))
<1> DEFINE p == SubSeq(l, 1, k)
<1>1. p \in Seq(Entries) /\ Len(p) = k /\ \A i \in 1..k : p[i] = l[i]
  OBVIOUS
<1>2. DOMAIN p = 1..k /\ DOMAIN l = 1..Len(l) /\ Len(l) \in Nat
  BY <1>1
<1> HIDE DEF p
<1>3. Recorded(p) = {l[i].receipt : i \in 1..k} \ {None}
  BY <1>1, <1>2 DEF Recorded
<1>4. OnceIn(l) => OnceIn(p)
  BY <1>1, <1>2 DEF OnceIn
<1> QED BY <1>1, <1>3, <1>4 DEF p

ProjectionsIn(l) ==
  /\ \A j \in 1..Len(l) : l[j].receipt = None =>
       l[j] = Projection(SubSeq(l, 1, j - 1), l[j].pairing.fingerprint)
  /\ \A i, j \in 1..Len(l) : l[i].receipt = None /\ l[i] = l[j] => i = j

LEMMA ProjectionsAppend ==
  ASSUME NEW l \in Seq(Entries), NEW e \in Entries, ProjectionsIn(l),
         e.receipt # None \/ \E fp \in Missing(l) : e = Projection(l, fp)
  PROVE  ProjectionsIn(Append(l, e))
<1> DEFINE m == Append(l, e)
<1>1. /\ m \in Seq(Entries) /\ Len(l) \in Nat /\ Len(m) = Len(l) + 1
      /\ m[Len(l) + 1] = e /\ \A i \in 1..Len(l) : m[i] = l[i]
  OBVIOUS
<1>2. \A k \in 0..Len(l) : SubSeq(m, 1, k) = SubSeq(l, 1, k)
  OBVIOUS
<1>3. SubSeq(l, 1, Len(l)) = l
  OBVIOUS
<1> HIDE DEF m
<1>4. \A j \in 1..Len(m) : j \in 1..Len(l) \/ j = Len(l) + 1
  BY <1>1
<1>5. ASSUME NEW j \in 1..Len(m), m[j].receipt = None
      PROVE  m[j] = Projection(SubSeq(m, 1, j - 1), m[j].pairing.fingerprint)
  <2>1. CASE j \in 1..Len(l)
    <3>1. m[j] = l[j] /\ SubSeq(m, 1, j - 1) = SubSeq(l, 1, j - 1)
      BY <1>1, <1>2, <2>1
    <3> QED BY <1>5, <2>1, <3>1 DEF ProjectionsIn
  <2>2. CASE j = Len(l) + 1
    <3>1. m[j] = e /\ j - 1 = Len(l) /\ SubSeq(m, 1, j - 1) = l
      BY <1>1, <1>2, <1>3, <2>2
    <3>2. PICK fp \in Missing(l) : e = Projection(l, fp)
      BY <1>5, <3>1
    <3>3. e.pairing.fingerprint = fp
      <4>1. Projection(l, fp).pairing.fingerprint = fp
        BY ProjectionFields
      <4> QED BY <3>2, <4>1
    <3> QED BY <3>1, <3>2, <3>3
  <2> QED BY <1>4, <2>1, <2>2
<1>6. ASSUME NEW i \in 1..Len(l), l[i].receipt = None \/ e.receipt = None PROVE l[i] # e
  <2>1. ASSUME l[i] = e PROVE FALSE
    <3>1. PICK fp \in Missing(l) : e = Projection(l, fp)
      BY <1>6, <2>1
    <3>2. i \in DOMAIN l
      BY <1>1
    <3> QED BY <2>1, <3>1, <3>2 DEF Missing
  <2> QED BY <2>1
<1>7. ASSUME NEW i \in 1..Len(m), NEW j \in 1..Len(m), m[i].receipt = None, m[i] = m[j] PROVE i = j
  <2>1. CASE i \in 1..Len(l) /\ j \in 1..Len(l)
    BY <1>1, <1>7, <2>1 DEF ProjectionsIn
  <2>2. CASE i \in 1..Len(l) /\ j = Len(l) + 1
    BY <1>1, <1>6, <1>7, <2>2
  <2>3. CASE i = Len(l) + 1 /\ j \in 1..Len(l)
    BY <1>1, <1>6, <1>7, <2>3
  <2> QED BY <1>4, <2>1, <2>2, <2>3
<1>8. ProjectionsIn(m)
  BY <1>5, <1>7 DEF ProjectionsIn
<1> QED BY <1>8 DEF m

LEMMA LastIsCurrent ==
  ASSUME log \in Seq(Entries), OnceIn(log), ProjectionsIn(log), Missing(log) = {},
         NEW fp \in Fingerprints(log)
  PROVE  Current(fp)
<1>0. DOMAIN log = 1..Len(log) /\ Len(log) \in Nat
  OBVIOUS
<1>1. PICK i \in 1..Len(log) : log[i] = Projection(log, fp)
  BY <1>0 DEF Missing
<1> DEFINE P(k) == SubSeq(log, 1, k - 1)
           S == SourcesOf(Recorded(log), fp)
<1>2. ASSUME NEW j \in 1..Len(log), j > i, log[j].receipt = None, log[j].pairing.fingerprint = fp
      PROVE  FALSE
  <2>1. /\ log[i] = Projection(P(i), fp) /\ log[j] = Projection(P(j), fp)
    BY <1>1, <1>2, ProjectionFields DEF ProjectionsIn
  <2>2. i - 1 \in 0..Len(log) /\ j - 1 \in 0..Len(log)
    BY <1>0
  <2>3. /\ P(j) \in Seq(Entries) /\ OnceIn(P(j))
        /\ Recorded(P(i)) = {log[k].receipt : k \in 1..(i - 1)} \ {None}
        /\ Recorded(P(j)) = {log[k].receipt : k \in 1..(j - 1)} \ {None}
    BY <2>2, PrefixOf
  <2> HIDE DEF P
  <2>4. Recorded(P(i)) \subseteq Recorded(P(j)) /\ Recorded(P(j)) \subseteq Recorded(log)
    <3>1. 1..(i - 1) \subseteq 1..(j - 1) /\ 1..(j - 1) \subseteq 1..Len(log)
      BY <1>0, <1>2
    <3> QED BY <1>0, <2>3, <3>1 DEF Recorded
  <2>5. SourcesOf(Recorded(P(i)), fp) = S
    <3>1. Projection(P(i), fp).pairing.sources = SourcesOf(Recorded(P(i)), fp)
      BY ProjectionFields
    <3>2. Projection(log, fp).pairing.sources = S
      BY ProjectionFields
    <3>3. Projection(P(i), fp) = Projection(log, fp)
      BY <1>1, <2>1
    <3> QED BY <3>1, <3>2, <3>3
  <2>6. SourcesOf(Recorded(P(j)), fp) = S
    BY <2>4, <2>5 DEF SourcesOf
  <2>7. log[j] = Projection(log, fp)
    BY <2>1, <2>3, <2>6, SameSources
  <2>8. log[i] = log[j] /\ log[i].receipt = None
    BY <1>1, <1>2, <2>7
  <2> QED BY <1>0, <1>2, <2>8 DEF ProjectionsIn
<1> QED BY <1>0, <1>1, <1>2 DEF Current

\* A drain past reconcile left no projection out, and its lock keeps it so.
ProjectInv ==
  /\ ProjectionsIn(log)
  /\ \A w \in Workers : pc[w] \in {"reclean", "reunmark"} => Missing(log) = {}

\* A fault of a hook or of a report is none of a drain's steps.
FaultOnly == UNCHANGED <<published, files, lock, local>> /\ faults < MaxFaults /\ faults' = faults + 1

LEMMA FaultStep == ASSUME DrainInv, FaultOnly PROVE DrainInv'
<1>1. TypeOK'
  BY CaptureAssumption DEF DrainInv, TypeOK, FaultOnly, files, local
<1>2. LockInv' /\ FilesInv'
  BY DEF DrainInv, LockInv, FilesInv, NothingLost, FaultOnly, files, local
<1>3. WorkerInv'
  BY DEF DrainInv, WorkerInv, Knows, FaultOnly, files, local
<1> QED BY <1>1, <1>2, <1>3 DEF DrainInv

LEMMA ProjectInit == ASSUME Init PROVE ProjectInv
<1>1. log = <<>> /\ Len(log) = 0 /\ \A w \in Workers : pc[w] = "idle"
  BY DEF Init
<1> QED BY <1>1 DEF ProjectInv, ProjectionsIn

LEMMA ProjectStep == ASSUME DrainInv, ProjectInv, [Next]_vars PROVE ProjectInv'
<1> USE DEF Goto, Forget, NextItem, files, local
<1>0. log \in Seq(Entries) /\ pc \in [Workers -> Points]
  BY DEF DrainInv, TypeOK
<1>1. ASSUME NEW w \in Workers, Persist(w) PROVE ProjectInv'
  <2>1. item[w] \in Receipts /\ copy[w] = log /\ lock = w
    BY <1>1, ClassSets DEF Persist, DrainInv, LockInv, WorkerInv, Knows, Holding, ItemPoints
  <2>2. ProjectionsIn(log')
    <3>1. ReceiptEntry(item[w]) \in Entries /\ ReceiptEntry(item[w]).receipt # None
      BY <2>1, ReceiptEntryType, CaptureAssumption
    <3>2. log' = Append(log, ReceiptEntry(item[w]))
      BY <1>1, <2>1 DEF Persist
    <3> QED BY <1>0, <3>1, <3>2, ProjectionsAppend DEF ProjectInv
  <2>3. \A v \in Workers : pc'[v] \notin {"reclean", "reunmark"}
    <3>1. \A v \in Workers : v # w => pc[v] \notin Holding
      BY <2>1 DEF DrainInv, LockInv
    <3> QED BY <1>0, <1>1, <3>1 DEF Persist, Holding, Cleaning
  <2> QED BY <2>2, <2>3 DEF ProjectInv
<1>2. ASSUME NEW w \in Workers, Project(w) PROVE ProjectInv'
  <2>1. copy[w] = log /\ lock = w /\ pc' = pc /\ pc[w] = "reconcile"
    BY <1>2 DEF Project, DrainInv, LockInv, WorkerInv, Knows, Holding
  <2>2. PICK fp \in Missing(log) : log' = Append(log, Projection(log, fp))
    BY <1>2, <2>1 DEF Project, DrainInv, TypeOK
  <2>3. ProjectionsIn(log')
    <3>1. Projection(log, fp) \in Entries
      BY <1>0, <2>2, ProjectionType
    <3> QED BY <1>0, <2>2, <3>1, ProjectionsAppend DEF ProjectInv
  <2>4. \A v \in Workers : pc'[v] \notin {"reclean", "reunmark"}
    BY <2>1 DEF DrainInv, LockInv, Holding, Cleaning
  <2> QED BY <2>3, <2>4 DEF ProjectInv
<1>3. ASSUME NEW w \in Workers, Reconciled(w) PROVE ProjectInv'
  <2>1. copy[w] = log /\ Missing(log) = {} /\ log' = log
    BY <1>3 DEF Reconciled, DrainInv, WorkerInv, Knows
  <2> QED BY <2>1 DEF ProjectInv
<1>4. ASSUME log' = log,
             \A v \in Workers : pc'[v] \in {"reclean", "reunmark"} => pc[v] \in {"reclean", "reunmark"}
      PROVE  ProjectInv'
  BY <1>4 DEF ProjectInv
<1>5. ASSUME NEW r \in Receipts, Publish(r) PROVE ProjectInv'
  BY <1>4, <1>5 DEF Publish
<1>6. ASSUME NEW w \in Workers, Start(w) \/ Acquire(w) \/ Busy(w) \/ List(w) \/ Claim(w) \/ Load(w)
                                \/ mark_completed(w) \/ dead_letter(w) \/ Retire(w) \/ Reconcile(w)
                                \/ Release(w) \/ FailItem(w) \/ FailDrain(w) \/ Crash(w)
      PROVE  ProjectInv'
  <2>1. log' = log
    BY <1>6 DEF Start, Acquire, Busy, List, Claim, Load, mark_completed, dead_letter, Retire, Reconcile,
                Release, FailItem, FailDrain, Crash
  <2>2. PICK l \in Points \ {"reclean", "reunmark"} : pc' = [pc EXCEPT ![w] = l]
    BY <1>6 DEF Start, Acquire, Busy, List, Claim, Load, mark_completed, dead_letter, Retire, Reconcile,
                Release, FailItem, FailDrain, Crash, Points, Holding, ItemPoints, Cleaning
  <2> QED BY <1>0, <1>4, <2>1, <2>2
<1>7. ASSUME NEW w \in Workers, CleanSource(w) \/ Unmark(w) PROVE ProjectInv'
  BY <1>0, <1>4, <1>7 DEF CleanSource, Unmark
<1>8. ASSUME Age \/ UNCHANGED vars PROVE ProjectInv'
  BY <1>4, <1>8 DEF Age, vars
<1> QED BY <1>1, <1>2, <1>3, <1>5, <1>6, <1>7, <1>8 DEF Next, Step

LEMMA ProjectHolds == ASSUME DrainInv, ProjectInv PROVE ProjectionsCurrent
<1>1. log \in Seq(Entries) /\ OnceIn(log) /\ ProjectionsIn(log)
  BY DEF DrainInv, TypeOK, FilesInv, ProjectInv
<1> QED BY <1>1, LastIsCurrent DEF ProjectInv, ProjectionsCurrent

-----------------------------------------------------------------------------
(* What the report counts on: a receipt that is out of the way of the drains *)
(* does not come back, for its file goes before its marker.                  *)

MarkInv == \A w \in Workers : pc[w] \in {"unmark", "reunmark"} =>
             item[w] \notin source /\ item[w] \in published

LEMMA MarkStep == ASSUME DrainInv, MarkInv, [Next]_vars PROVE MarkInv'
<1> USE DEF Goto, Forget, NextItem, files, local
<1>0. pc \in [Workers -> Points] /\ item \in [Workers -> Receipts \union {None}] /\ work \in [Workers -> SUBSET Receipts]
  BY DEF DrainInv, TypeOK
<1>1. ASSUME NEW w \in Workers, CleanSource(w) PROVE MarkInv'
  <2>1. PICK r \in work[w] : source' = source \ {r} /\ item' = [item EXCEPT ![w] = r]
    BY <1>1 DEF CleanSource
  <2>2. r \in published
    BY <1>1, <2>1 DEF CleanSource, DrainInv, WorkerInv, Knows, FilesInv, Cleaning
  <2>3. \A v \in Workers : v # w => pc'[v] = pc[v] /\ item'[v] = item[v]
    BY <1>0, <1>1, <2>1 DEF CleanSource
  <2>4. item'[w] = r /\ published' = published
    BY <1>0, <1>1, <2>1 DEF CleanSource
  <2> QED BY <2>1, <2>2, <2>3, <2>4 DEF MarkInv
<1>2. ASSUME NEW r \in Receipts, Publish(r) PROVE MarkInv'
  BY <1>2 DEF Publish, MarkInv
<1>3. ASSUME source' \subseteq source, published' = published,
             \A v \in Workers : pc'[v] \in {"unmark", "reunmark"} => pc[v] = pc'[v] /\ item'[v] = item[v]
      PROVE  MarkInv'
  BY <1>3 DEF MarkInv
<1>4. ASSUME NEW w \in Workers, Start(w) \/ Acquire(w) \/ Busy(w) \/ List(w) \/ Claim(w) \/ Load(w)
                                \/ Persist(w) \/ mark_completed(w) \/ dead_letter(w) \/ Retire(w)
                                \/ Reconcile(w) \/ Reconciled(w) \/ Unmark(w)
                                \/ Release(w) \/ FailItem(w) \/ FailDrain(w) \/ Crash(w)
      PROVE  MarkInv'
  <2>1. source' \subseteq source /\ published' = published
    BY <1>4 DEF Start, Acquire, Busy, List, Claim, Load, Persist, mark_completed, dead_letter, Retire, Reconcile,
                Reconciled, Unmark, Release, FailItem, FailDrain, Crash
  <2>2. PICK l \in Points \ {"unmark", "reunmark"} : pc' = [pc EXCEPT ![w] = l]
    BY <1>4 DEF Start, Acquire, Busy, List, Claim, Load, Persist, mark_completed, dead_letter, Retire, Reconcile,
                Reconciled, Unmark, Release, FailItem, FailDrain, Crash, Points, Holding, ItemPoints, Cleaning
  <2>3. \A v \in Workers : v # w => item'[v] = item[v]
    BY <1>0, <1>4 DEF Start, Acquire, Busy, List, Claim, Load, Persist, mark_completed, dead_letter, Retire,
                Reconcile, Reconciled, Unmark, Release, FailItem, FailDrain, Crash
  <2> QED BY <1>0, <1>3, <2>1, <2>2, <2>3
<1>5. ASSUME NEW w \in Workers, Project(w) PROVE MarkInv'
  BY <1>3, <1>5 DEF Project
<1>6. ASSUME Age \/ UNCHANGED vars PROVE MarkInv'
  BY <1>3, <1>6 DEF Age, vars
<1> QED BY <1>1, <1>2, <1>4, <1>5, <1>6 DEF Next, Step

LEMMA OpenShrinks ==
  ASSUME DrainInv, MarkInv, [Next]_vars \/ FaultOnly
  PROVE  /\ published \intersect Open' \subseteq Open
         /\ published \subseteq published' /\ dead \subseteq dead'
<1> USE DEF Goto, Forget, NextItem, files, local
<1> DEFINE Good == /\ published \intersect (source' \ done') \subseteq source \ done
                   /\ published \subseteq published' /\ dead \subseteq dead'
<1>1. ASSUME NEW r \in Receipts, Publish(r) PROVE Good
  BY <1>1 DEF Publish
<1>2. ASSUME NEW w \in Workers, Unmark(w) PROVE Good
  BY <1>2 DEF Unmark, MarkInv
<1>3. ASSUME NEW w \in Workers, Start(w) \/ Acquire(w) \/ Busy(w) \/ CleanSource(w) \/ List(w) \/ Claim(w)
                                \/ Load(w) \/ Persist(w) \/ mark_completed(w) \/ dead_letter(w) \/ Retire(w)
                                \/ Reconcile(w) \/ Project(w) \/ Reconciled(w)
                                \/ Release(w) \/ FailItem(w) \/ FailDrain(w) \/ Crash(w)
      PROVE  Good
  <2>1. source' \subseteq source /\ done \subseteq done' /\ published' = published /\ dead \subseteq dead'
    BY <1>3 DEF Start, Acquire, Busy, CleanSource, List, Claim, Load, Persist, mark_completed, dead_letter, Retire,
                Reconcile, Project, Reconciled, Release, FailItem, FailDrain, Crash
  <2> QED BY <2>1
<1>4. ASSUME Age \/ UNCHANGED vars \/ FaultOnly PROVE Good
  BY <1>4 DEF Age, vars, FaultOnly
<1> QED BY <1>1, <1>2, <1>3, <1>4 DEF Next, Step, Open

-----------------------------------------------------------------------------
(* The hook (HookCapture): what its position says of the temporary file, the *)
(* receipt and the line in its log.                                          *)

EarlyFault == CaptureFault \ {"receipt_publish", "worker_spawn"}
Early == {"run", "prepare", "identity", "create", "write", "link"}

\* a is asked, h where the hook is, s its log line, t the temporary file, p the
\* payload, and pub tells whether the receipt is published.
HookOK(a, h, s, t, p, pub) ==
  /\ a \in CaptureArgs /\ h \in HookPoints
  /\ a.kind = "foreign" => h = "idle"
  /\ h = "idle" /\ a.kind # "foreign" => ~pub
  /\ h \in Early => ~pub
  /\ h \in {"unlink", "sync", "spawn"} => pub
  /\ h \in {"idle", "run", "prepare", "identity", "create", "sync", "spawn", "exit"} => t = "absent"
  /\ h \in {"link", "unlink"} => t = "whole"
  /\ h = "dead" /\ pub => t \in {"absent", "whole"}
  /\ h \in Early \ {"run"} \/ (pub /\ a.kind # "foreign") => p = Captured(a)
  /\ s # None => h = "exit"
  /\ s = "recorded" => pub
  /\ s \in EarlyFault => ~pub

HookOf(r) == HookOK(asked[r], hook[r], said[r], temp[r], payload[r], r \in published)

HookInv ==
  /\ DOMAIN hook = Receipts /\ DOMAIN said = Receipts /\ DOMAIN temp = Receipts /\ DOMAIN payload = Receipts
  /\ \A r \in Receipts : HookOf(r)

LEMMA CapturedFault ==
  ASSUME NEW a \in CaptureArgs
  PROVE  Captured(a).fault \in {None, "missing_oid", "unknown_kind"}
<1>1. \A n, note : Carrying(n, note).fault = None
  BY DEF Carrying
<1>2. \A f : NoReceipt(f).fault = f
  BY DEF NoReceipt
<1>3. capture_commit(a).fault \in {None, "missing_oid", "unknown_kind"}
  BY <1>1, <1>2 DEF capture_commit
<1>4. capture_checkout(a).fault \in {None, "missing_oid", "unknown_kind"}
  BY <1>1, <1>2 DEF capture_checkout
<1>5. parse_push_tuples(a).fault \in {None, "missing_oid", "unknown_kind"}
  BY <1>1, <1>2 DEF parse_push_tuples
<1>6. capture_merge(a).fault \in {None, "missing_oid", "unknown_kind"}
  BY <1>1, <1>2, Zenon DEF capture_merge
<1>7. capture_rewrite(a).fault \in {None, "missing_oid", "unknown_kind"}
  BY <1>1, <1>2 DEF capture_rewrite
<1>8. capture_reference_transaction(a).fault \in {None, "missing_oid", "unknown_kind"}
  BY <1>1, <1>2 DEF capture_reference_transaction
<1> QED BY <1>2, <1>3, <1>4, <1>5, <1>6, <1>7, <1>8 DEF Captured

\* The tuples of a push are all there, or none with the reason.
LEMMA PushPayload ==
  ASSUME NEW a, a.kind = "push-attempt"
  PROVE  \/ Captured(a).updates = Len(a.lines) /\ Captured(a).note = "complete"
         \/ Captured(a).updates = 0 /\ Captured(a).note \in {"oversize", "malformed"}
<1>1. Captured(a) = parse_push_tuples(a)
  BY DEF Captured
<1>2. bounded_tuples(a) \in {"complete", "oversize", "malformed"}
  BY DEF bounded_tuples
<1>3. \A n, note : Carrying(n, note).updates = n /\ Carrying(n, note).note = note
  BY DEF Carrying
<1>4. CASE bounded_tuples(a) = "complete"
  <2>1. parse_push_tuples(a) = Carrying(Len(a.lines), "complete")
    BY <1>4 DEF parse_push_tuples
  <2> QED BY <1>1, <1>3, <2>1
<1>5. CASE bounded_tuples(a) # "complete"
  <2>1. parse_push_tuples(a) = Carrying(0, bounded_tuples(a))
    BY <1>5 DEF parse_push_tuples
  <2> QED BY <1>1, <1>2, <1>3, <1>5, <2>1
<1> QED BY <1>4, <1>5

\* A step of the hook of r leaves the others alone.
Sets(f, g, r, x) == g = [f EXCEPT ![r] = x] \/ (g = f /\ x = f[r])

LEMMA OneHook ==
  ASSUME HookInv, NEW r \in Receipts, NEW h, NEW s, NEW t, NEW p,
         asked' = asked, Sets(hook, hook', r, h), Sets(said, said', r, s),
         Sets(temp, temp', r, t), Sets(payload, payload', r, p),
         \A q \in Receipts : q # r => (q \in published' <=> q \in published),
         HookOK(asked[r], h, s, t, p, r \in published')
  PROVE  HookInv'
<1>1. /\ DOMAIN hook' = Receipts /\ DOMAIN said' = Receipts /\ DOMAIN temp' = Receipts
      /\ DOMAIN payload' = Receipts
      /\ hook'[r] = h /\ said'[r] = s /\ temp'[r] = t /\ payload'[r] = p
      /\ \A q \in Receipts : q # r => hook'[q] = hook[q] /\ said'[q] = said[q]
                                      /\ temp'[q] = temp[q] /\ payload'[q] = payload[q]
  <2>0. DOMAIN hook = Receipts /\ DOMAIN said = Receipts /\ DOMAIN temp = Receipts /\ DOMAIN payload = Receipts
    BY DEF HookInv
  <2>1. DOMAIN hook' = Receipts /\ hook'[r] = h /\ \A q \in Receipts : q # r => hook'[q] = hook[q]
    BY <2>0 DEF Sets
  <2>2. DOMAIN said' = Receipts /\ said'[r] = s /\ \A q \in Receipts : q # r => said'[q] = said[q]
    BY <2>0 DEF Sets
  <2>3. DOMAIN temp' = Receipts /\ temp'[r] = t /\ \A q \in Receipts : q # r => temp'[q] = temp[q]
    BY <2>0 DEF Sets
  <2>4. DOMAIN payload' = Receipts /\ payload'[r] = p /\ \A q \in Receipts : q # r => payload'[q] = payload[q]
    BY <2>0 DEF Sets
  <2> QED BY <2>1, <2>2, <2>3, <2>4
<1>2. ASSUME NEW q \in Receipts PROVE HookOf(q)'
  <2>1. CASE q = r
    BY <1>1, <2>1 DEF HookOf
  <2>2. CASE q # r
    <3>1. hook'[q] = hook[q] /\ said'[q] = said[q] /\ temp'[q] = temp[q] /\ payload'[q] = payload[q]
      BY <1>1, <2>2
    <3>2. HookOf(q)
      BY DEF HookInv
    <3> QED BY <2>2, <3>1, <3>2 DEF HookOf, HookOK
  <2> QED BY <2>1, <2>2
<1> QED BY <1>1, <1>2 DEF HookInv

LEMMA HookStays ==
  ASSUME HookInv, UNCHANGED hookVars, UNCHANGED published PROVE HookInv'
BY DEF HookInv, HookOf, HookOK, hookVars

LEMMA HookStepInv == ASSUME HookInv, NEW r \in Receipts, HookStep(r) PROVE HookInv'
<1> DEFINE a == asked[r]
           h == hook[r]
           s == said[r]
           t == temp[r]
           p == payload[r]
           pub == r \in published
<1> USE HookAssumption DEF HookGoto, Fault, Quietly, vars, reportVars, hookVars, FaultVars, CountFault
<1>0. HookOK(a, h, s, t, p, pub)
  BY DEF HookInv, HookOf
<1> DEFINE OK(h1, s1, t1, p1, pub1) == HookOK(a, h1, s1, t1, p1, pub1)
<1>1. ASSUME HookStart(r) PROVE HookInv'
  <2>1. OK("run", s, t, p, pub)
    BY <1>0, <1>1 DEF HookStart, HookOK, HookPoints, Early
  <2> QED BY <1>0, <1>1, <2>1, OneHook DEF Sets, HookStart
<1>2. ASSUME Run(r) PROVE HookInv'
  <2> DEFINE c == Captured(a)
  <2>1. c.fault \in {None, "missing_oid", "unknown_kind"} /\ h = "run"
    BY <1>0, <1>2, CapturedFault DEF HookOK, Run
  <2>2. CASE c.fault # None
    <3>1. OK("exit", c.fault, t, c, pub)
      BY <1>0, <2>1, <2>2 DEF HookOK, HookPoints, Early
    <3> QED BY <1>0, <1>2, <2>2, <3>1, OneHook DEF Sets, Run
  <2>3. CASE c.fault = None
    <3>1. OK("prepare", s, t, c, pub)
      BY <1>0, <2>1 DEF HookOK, HookPoints, Early
    <3> QED BY <1>0, <1>2, <2>3, <3>1, OneHook DEF Sets, Run
  <2> QED BY <2>2, <2>3
<1>3. ASSUME ensure_private_dir(r) PROVE HookInv'
  <2>1. OK("exit", "receipt_directory", t, p, pub) /\ OK("identity", s, t, p, pub)
    BY <1>0, <1>3 DEF ensure_private_dir, HookOK, HookPoints, Early
  <2> QED BY <1>0, <1>3, <2>1, OneHook DEF Sets, ensure_private_dir
<1>4. ASSUME receipt_id(r) PROVE HookInv'
  <2>1. OK("create", s, t, p, pub)
    BY <1>0, <1>4 DEF receipt_id, HookOK, HookPoints, Early
  <2> QED BY <1>0, <1>4, <2>1, OneHook DEF Sets, receipt_id
<1>5. ASSUME CreateTemp(r) PROVE HookInv'
  <2>1. OK("exit", "receipt_publish", t, p, pub) /\ OK("write", s, "part", p, pub)
    BY <1>0, <1>5 DEF CreateTemp, HookOK, HookPoints, Early, EarlyFault
  <2> QED BY <1>0, <1>5, <2>1, OneHook DEF Sets, CreateTemp
<1>6. ASSUME WriteTemp(r) PROVE HookInv'
  <2>1. OK("link", s, "whole", p, pub)
    BY <1>0, <1>6 DEF WriteTemp, HookOK, HookPoints, Early
  <2> QED BY <1>0, <1>6, <2>1, OneHook DEF Sets, WriteTemp
<1>7. ASSUME LinkReceipt(r) PROVE HookInv'
  <2>1. OK("unlink", s, t, p, TRUE)
    BY <1>0, <1>7 DEF LinkReceipt, HookOK, HookPoints, Early, EarlyFault
  <2>2. published' = published \union {r}
    BY <1>7 DEF LinkReceipt, Publish
  <2>3. OK("unlink", s, t, p, r \in published')
    BY <2>1, <2>2
  <2> QED BY <1>0, <1>7, <2>2, <2>3, OneHook DEF Sets, LinkReceipt
<1>8. ASSUME UnlinkTemp(r) PROVE HookInv'
  <2>1. OK("sync", s, "absent", p, pub)
    BY <1>0, <1>8 DEF UnlinkTemp, HookOK, HookPoints, Early
  <2> QED BY <1>0, <1>8, <2>1, OneHook DEF Sets, UnlinkTemp
<1>9. ASSUME SyncDirectory(r) PROVE HookInv'
  <2>1. OK("spawn", s, t, p, pub)
    BY <1>0, <1>9 DEF SyncDirectory, HookOK, HookPoints, Early
  <2> QED BY <1>0, <1>9, <2>1, OneHook DEF Sets, SyncDirectory
<1>10. ASSUME spawn_worker(r) PROVE HookInv'
  <2>1. OK("exit", "recorded", t, p, pub)
    BY <1>0, <1>10 DEF spawn_worker, HookOK, HookPoints, Early, EarlyFault, CaptureFault
  <2>2. published' = published
    BY <1>10 DEF spawn_worker, Start
  <2> QED BY <1>0, <1>10, <2>1, <2>2, OneHook DEF Sets, spawn_worker
<1>11. ASSUME HookFails(r) PROVE HookInv'
  <2>1. PICK f \in {"log_resolve", "runtime_prepare", "receipt_identity", "receipt_publish", "worker_spawn"},
             t1 \in {t, "absent"} :
          /\ hook' = [hook EXCEPT ![r] = "exit"] /\ said' = [said EXCEPT ![r] = f]
          /\ Sets(temp, temp', r, t1)
          /\ f \in {"log_resolve", "runtime_prepare", "receipt_identity"} => h \in Early
          /\ t1 = "absent"
          /\ h \in Early \union {"sync", "spawn"}
    BY <1>0, <1>11 DEF HookFails, HookOK, Early, Sets
  <2>2. OK("exit", f, t1, p, pub)
    BY <1>0, <2>1 DEF HookOK, HookPoints, Early, EarlyFault
  <2> QED BY <1>0, <1>11, <2>1, <2>2, OneHook DEF Sets, HookFails
<1>12. ASSUME HookDies(r) PROVE HookInv'
  <2>1. OK("dead", s, t, p, pub)
    BY <1>0, <1>12 DEF HookDies, HookOK, HookPoints, Early
  <2> QED BY <1>0, <1>12, <2>1, OneHook DEF Sets, HookDies
<1>13. ASSUME Plant(r) PROVE HookInv'
  <2>1. OK(h, s, t, p, TRUE)
    BY <1>0, <1>13 DEF Plant, HookOK, HookPoints, Early, EarlyFault
  <2>2. published' = published \union {r}
    BY <1>13 DEF Plant, Publish
  <2>3. OK(h, s, t, p, r \in published')
    BY <2>1, <2>2
  <2> QED BY <1>0, <1>13, <2>2, <2>3, OneHook DEF Sets, Plant
<1> QED BY <1>1, <1>2, <1>3, <1>4, <1>5, <1>6, <1>7, <1>8, <1>9, <1>10, <1>11, <1>12, <1>13 DEF HookStep

LEMMA HookHolds == ASSUME DrainInv, HookInv PROVE ReceiptsHonest
<1> SUFFICES ASSUME NEW r \in Receipts
             PROVE  /\ asked[r] \in CaptureArgs /\ hook[r] \in HookPoints
                    /\ r \in published /\ temp[r] # "absent" => temp[r] = "whole"
                    /\ said[r] = "recorded" => r \in source \union Recorded(log) \union dead
                    /\ said[r] \in CaptureFault \ {"receipt_publish", "worker_spawn"} => r \notin published
                    /\ r \in published /\ asked[r].kind = "push-attempt" =>
                         \/ payload[r].updates = Len(asked[r].lines) /\ payload[r].note = "complete"
                         \/ payload[r].updates = 0 /\ payload[r].note \in {"oversize", "malformed"}
  BY DEF ReceiptsHonest
<1>1. HookOK(asked[r], hook[r], said[r], temp[r], payload[r], r \in published)
  BY DEF HookInv, HookOf
<1>2. asked[r] \in CaptureArgs /\ hook[r] \in HookPoints
  BY <1>1 DEF HookOK
<1>3. r \in published /\ temp[r] # "absent" => temp[r] = "whole"
  BY <1>1 DEF HookOK, HookPoints, Early
<1>4. said[r] = "recorded" => r \in source \union Recorded(log) \union dead
  BY <1>1 DEF HookOK, DrainInv, FilesInv, NothingLost
<1>5. said[r] \in CaptureFault \ {"receipt_publish", "worker_spawn"} => r \notin published
  BY <1>1 DEF HookOK, EarlyFault
<1>6. ASSUME r \in published, asked[r].kind = "push-attempt" PROVE payload[r] = Captured(asked[r])
  BY <1>1, <1>6 DEF HookOK
<1> QED BY <1>2, <1>3, <1>4, <1>5, <1>6, PushPayload

-----------------------------------------------------------------------------
(* The report (HookCapture): what has been listed and counted so far bounds  *)
(* what is still open, because nothing listed opens again.                   *)

ReportPoints == {"quiet", "list", "filter", "letters", "replace"}
Counts == [pending : Nat, dead : Nat, written : BOOLEAN]

\* rp is where the report is, ls what it listed, ct what it counted, wn the
\* receipts open at the listing; then come the receipts published, the ones
\* open, and the dead letters, now.
ReportOK(rp, ls, ct, wn, pub, opn, letters) ==
  /\ rp \in ReportPoints /\ ls \subseteq pub /\ wn \subseteq pub /\ ct \in Counts
  /\ rp = "filter" => wn \subseteq ls
  /\ rp \in {"letters", "replace"} => Cardinality(wn \intersect opn) <= ct.pending
  /\ rp = "replace" => ct.dead <= Cardinality(letters)

ReportOf(w) == ReportOK(report[w], listed[w], counted[w], windows[w], published, Open, dead)

ReportInv ==
  /\ IsFiniteSet(published)
  /\ DOMAIN report = Workers /\ DOMAIN listed = Workers /\ DOMAIN counted = Workers /\ DOMAIN windows = Workers
  /\ \A w \in Workers : ReportOf(w)

LEMMA ReportLater ==
  ASSUME NEW rp, NEW ls, NEW ct, NEW wn, NEW pub, NEW opn, NEW letters, NEW pub2, NEW opn2, NEW letters2,
         ReportOK(rp, ls, ct, wn, pub, opn, letters), IsFiniteSet(pub2), pub \subseteq pub2,
         pub \intersect opn2 \subseteq opn, letters \subseteq letters2, letters2 \subseteq pub2
  PROVE  ReportOK(rp, ls, ct, wn, pub2, opn2, letters2)
<1>1. ls \subseteq pub2 /\ wn \subseteq pub2
  BY DEF ReportOK
<1>2. IsFiniteSet(wn \intersect opn) /\ IsFiniteSet(letters2)
  BY <1>1, FS_Subset
<1>3. wn \intersect opn2 \subseteq wn \intersect opn
  BY DEF ReportOK
<1>4. Cardinality(wn \intersect opn2) <= Cardinality(wn \intersect opn) /\ IsFiniteSet(wn \intersect opn2)
  BY <1>2, <1>3, FS_Subset
<1>5. Cardinality(letters) <= Cardinality(letters2) /\ IsFiniteSet(letters)
  BY <1>2, FS_Subset
<1>6. /\ Cardinality(wn \intersect opn) \in Nat /\ Cardinality(wn \intersect opn2) \in Nat
      /\ Cardinality(letters) \in Nat /\ Cardinality(letters2) \in Nat
  BY <1>2, <1>4, <1>5, FS_CardinalityType
<1>7. ct \in Counts => ct.pending \in Nat /\ ct.dead \in Nat
  BY DEF Counts
<1> QED BY <1>1, <1>4, <1>5, <1>6, <1>7 DEF ReportOK

\* Every step of the composed system is a step of the drains or a fault.
LEMMA CaptureStep ==
  ASSUME [CaptureNext]_allVars PROVE [Next]_vars \/ FaultOnly
<1> USE DEF Quietly, FaultVars, CountFault
<1>1. ASSUME NEW r \in Receipts, HookStep(r) PROVE [Next]_vars \/ FaultOnly
  <2>1. CASE HookStart(r) \/ Run(r) \/ ensure_private_dir(r) \/ receipt_id(r) \/ CreateTemp(r) \/ WriteTemp(r)
             \/ UnlinkTemp(r) \/ SyncDirectory(r)
    BY <2>1 DEF HookStart, Run, ensure_private_dir, receipt_id, CreateTemp, WriteTemp, UnlinkTemp, SyncDirectory
  <2>2. CASE LinkReceipt(r) \/ Plant(r)
    BY <2>2 DEF LinkReceipt, Plant, Next
  <2>3. CASE spawn_worker(r)
    BY <2>3 DEF spawn_worker, Next
  <2>4. CASE HookFails(r) \/ HookDies(r)
    BY <2>4 DEF HookFails, HookDies, FaultOnly
  <2> QED BY <1>1, <2>1, <2>2, <2>3, <2>4 DEF HookStep
<1>2. ASSUME NEW w \in Workers, ReportStep(w) PROVE [Next]_vars \/ FaultOnly
  BY <1>2 DEF ReportStep, BeginReport, ListPending, CountPending, CountLetters, write_current_status, ReportDies,
              Next, Step, FaultOnly
<1>3. ASSUME NEW w \in Workers, DrainStep(w) PROVE [Next]_vars \/ FaultOnly
  BY <1>3 DEF DrainStep, Next, Step
<1>4. ASSUME Age \/ UNCHANGED allVars PROVE [Next]_vars \/ FaultOnly
  BY <1>4 DEF Next, allVars
<1> QED BY <1>1, <1>2, <1>3, <1>4 DEF CaptureNext

LEMMA PublishedFinite ==
  ASSUME IsFiniteSet(published), [Next]_vars \/ FaultOnly PROVE IsFiniteSet(published')
<1>1. (\E r \in Receipts : Publish(r)) \/ published' = published
  BY DEF FaultOnly, Next, Step, vars, Start, Acquire, Busy, CleanSource, Unmark, List, Claim, Load, Persist,
     mark_completed, dead_letter, Retire, Reconcile, Project, Reconciled, Release, FailItem, FailDrain, Crash, Age
<1>2. ASSUME NEW r \in Receipts, Publish(r) PROVE IsFiniteSet(published')
  <2>1. published' = published \union {r}
    BY <1>2 DEF Publish
  <2> QED BY <2>1, FS_AddElement
<1> QED BY <1>1, <1>2

\* A step of the report of w leaves the others alone.
LEMMA OneReport ==
  ASSUME ReportInv, NEW w \in Workers, NEW rp, NEW ls, NEW ct, NEW wn,
         Sets(report, report', w, rp), Sets(listed, listed', w, ls),
         Sets(counted, counted', w, ct), Sets(windows, windows', w, wn),
         UNCHANGED <<published, source, done, dead>>, ReportOK(rp, ls, ct, wn, published, Open, dead)
  PROVE  ReportInv'
<1>0. DOMAIN report = Workers /\ DOMAIN listed = Workers /\ DOMAIN counted = Workers /\ DOMAIN windows = Workers
  BY DEF ReportInv
<1>1. DOMAIN report' = Workers /\ report'[w] = rp /\ \A v \in Workers : v # w => report'[v] = report[v]
  BY <1>0 DEF Sets
<1>2. DOMAIN listed' = Workers /\ listed'[w] = ls /\ \A v \in Workers : v # w => listed'[v] = listed[v]
  BY <1>0 DEF Sets
<1>3. DOMAIN counted' = Workers /\ counted'[w] = ct /\ \A v \in Workers : v # w => counted'[v] = counted[v]
  BY <1>0 DEF Sets
<1>4. DOMAIN windows' = Workers /\ windows'[w] = wn /\ \A v \in Workers : v # w => windows'[v] = windows[v]
  BY <1>0 DEF Sets
<1>5. Open' = Open /\ published' = published /\ dead' = dead
  BY DEF Open
<1>6. ASSUME NEW v \in Workers PROVE ReportOf(v)'
  <2>1. CASE v = w
    BY <1>1, <1>2, <1>3, <1>4, <1>5, <2>1 DEF ReportOf
  <2>2. CASE v # w
    <3>1. /\ report'[v] = report[v] /\ listed'[v] = listed[v] /\ counted'[v] = counted[v]
          /\ windows'[v] = windows[v] /\ ReportOf(v)
      BY <1>1, <1>2, <1>3, <1>4, <2>2 DEF ReportInv
    <3> QED BY <1>5, <3>1 DEF ReportOf
  <2> QED BY <2>1, <2>2
<1> QED BY <1>1, <1>2, <1>3, <1>4, <1>5, <1>6 DEF ReportInv

\* Drains and hooks go on while a report counts.
LEMMA ReportMeanwhile ==
  ASSUME DrainInv, DrainInv', MarkInv, ReportInv, [Next]_vars \/ FaultOnly,
         listed' = listed, counted' = counted, windows' = windows,
         DOMAIN report' = Workers,
         \A w \in Workers : report'[w] = report[w] \/ report'[w] \in {"quiet", "list"}
  PROVE  ReportInv'
<1>1. IsFiniteSet(published')
  BY PublishedFinite DEF ReportInv
<1>2. published \intersect Open' \subseteq Open /\ published \subseteq published' /\ dead \subseteq dead'
  BY OpenShrinks
<1>3. dead' \subseteq published'
  BY DEF DrainInv, FilesInv
<1>4. ASSUME NEW w \in Workers PROVE ReportOf(w)'
  <2>1. ReportOK(report[w], listed[w], counted[w], windows[w], published, Open, dead)
    BY DEF ReportInv, ReportOf
  <2>2. ReportOK(report[w], listed[w], counted[w], windows[w], published', Open', dead')
    BY <1>1, <1>2, <1>3, <2>1, ReportLater
  <2>3. ReportOK(report'[w], listed[w], counted[w], windows[w], published', Open', dead')
    BY <2>2 DEF ReportOK, ReportPoints
  <2> QED BY <2>3 DEF ReportOf
<1> QED BY <1>1, <1>4 DEF ReportInv

LEMMA ReportStepInv ==
  ASSUME DrainInv, DrainInv', MarkInv, ReportInv, [CaptureNext]_allVars
  PROVE  ReportInv'
<1>0. [Next]_vars \/ FaultOnly
  BY CaptureStep
<1>1. ASSUME UNCHANGED reportVars PROVE ReportInv'
  BY <1>0, <1>1, ReportMeanwhile DEF reportVars, ReportInv
<1>2. ASSUME NEW w \in Workers, ReportStep(w) PROVE ReportInv'
  <2> DEFINE rp == report[w]
             ls == listed[w]
             ct == counted[w]
             wn == windows[w]
             OK(rp1, ls1, ct1, wn1) == ReportOK(rp1, ls1, ct1, wn1, published, Open, dead)
  <2>0. /\ OK(rp, ls, ct, wn) /\ ct \in Counts /\ NoStatus \in Counts
        /\ source \subseteq published /\ dead \subseteq published
        /\ IsFiniteSet(published) /\ IsFiniteSet(dead) /\ Cardinality(dead) \in Nat
    <3>1. OK(rp, ls, ct, wn) /\ ct \in Counts /\ IsFiniteSet(published)
      BY DEF ReportInv, ReportOf, ReportOK
    <3>2. source \subseteq published /\ dead \subseteq published
      BY DEF DrainInv, FilesInv
    <3>3. IsFiniteSet(dead)
      BY <3>1, <3>2, FS_Subset
    <3>4. NoStatus \in Counts
      BY DEF NoStatus, Counts
    <3> QED BY <3>1, <3>2, <3>3, <3>4, FS_CardinalityType
  <2>1. CASE BeginReport(w)
    <3>1. listed' = listed /\ counted' = counted /\ windows' = windows /\ report' = [report EXCEPT ![w] = "list"]
      BY <2>1 DEF BeginReport, ReportGoto
    <3>2. DOMAIN report = Workers
      BY DEF ReportInv
    <3>3. DOMAIN report' = Workers /\ \A v \in Workers : report'[v] = report[v] \/ report'[v] \in {"quiet", "list"}
      BY <3>1, <3>2
    <3> QED BY <1>0, <3>1, <3>3, ReportMeanwhile
  <2>2. CASE ListPending(w)
    <3>1. OK("filter", source, ct, Open)
      BY <2>0 DEF ReportOK, ReportPoints, Open
    <3> QED BY <2>2, <3>1, OneReport DEF ListPending, ReportGoto, Sets, vars, files
  <2>3. CASE CountPending(w)
    <3> DEFINE n == Cardinality(ls \ done)
               c1 == [ct EXCEPT !.pending = n]
    <3>1. wn \intersect Open \subseteq ls \ done /\ ls \subseteq published
      BY <2>0, <2>3 DEF CountPending, ReportOK, Open
    <3>2. IsFiniteSet(ls \ done)
      BY <2>0, <3>1, FS_Subset
    <3>3. n \in Nat /\ Cardinality(wn \intersect Open) <= n
      BY <3>1, <3>2, FS_Subset, FS_CardinalityType
    <3> HIDE DEF n
    <3>4. c1 \in Counts /\ c1.pending = n
      BY <2>0, <3>3 DEF Counts
    <3>5. counted' = [counted EXCEPT ![w] = c1]
      BY <2>3 DEF CountPending, pending, n
    <3> HIDE DEF c1
    <3>6. OK("letters", ls, c1, wn)
      BY <2>0, <3>3, <3>4 DEF ReportOK, ReportPoints
    <3> QED BY <2>3, <3>5, <3>6, OneReport DEF CountPending, ReportGoto, Sets, vars, files
  <2>4. CASE CountLetters(w)
    <3> DEFINE n == Cardinality(dead)
               c1 == [ct EXCEPT !.dead = n]
    <3>1. n \in Nat
      BY <2>0
    <3>2. counted' = [counted EXCEPT ![w] = c1]
      BY <2>4 DEF CountLetters
    <3> HIDE DEF n
    <3>3. c1 \in Counts /\ c1.dead = n /\ c1.pending = ct.pending
      BY <2>0, <3>1 DEF Counts
    <3> HIDE DEF c1
    <3>4. rp = "letters"
      BY <2>4 DEF CountLetters
    <3>5. OK("replace", ls, c1, wn)
      <4>1. c1.dead <= Cardinality(dead)
        BY <3>1, <3>3 DEF n
      <4> QED BY <2>0, <3>3, <3>4, <4>1 DEF ReportOK, ReportPoints
    <3> QED BY <2>4, <3>2, <3>5, OneReport DEF CountLetters, ReportGoto, Sets, vars, files
  <2>5. CASE write_current_status(w) \/ ReportDies(w)
    <3>1. OK("quiet", {}, NoStatus, {})
      BY <2>0 DEF ReportOK, ReportPoints
    <3>2. /\ report' = [report EXCEPT ![w] = "quiet"] /\ listed' = [listed EXCEPT ![w] = {}]
          /\ counted' = [counted EXCEPT ![w] = NoStatus] /\ windows' = [windows EXCEPT ![w] = {}]
          /\ UNCHANGED <<published, source, done, dead>>
      BY <2>5 DEF write_current_status, ReportDies, ReportGoto, vars, files
    <3> QED BY <3>1, <3>2, OneReport DEF Sets
  <2> QED BY <1>2, <2>1, <2>2, <2>3, <2>4, <2>5 DEF ReportStep
<1>3. ASSUME NEW r \in Receipts, HookStep(r) PROVE UNCHANGED reportVars
  BY <1>3 DEF HookStep, HookStart, Run, ensure_private_dir, receipt_id, CreateTemp, WriteTemp, LinkReceipt, UnlinkTemp,
              SyncDirectory, spawn_worker, HookFails, HookDies, Plant, Quietly, FaultVars
<1>4. ASSUME NEW w \in Workers, DrainStep(w) PROVE UNCHANGED reportVars
  BY <1>4 DEF DrainStep
<1> QED BY <1>1, <1>2, <1>3, <1>4 DEF CaptureNext, allVars

-----------------------------------------------------------------------------
(* Capture as a whole. *)

CaptureInv == DrainInv /\ ProjectInv /\ MarkInv /\ HookInv /\ ReportInv

LEMMA CaptureInvInit == CaptureInit => CaptureInv
<1> SUFFICES ASSUME CaptureInit PROVE CaptureInv
  OBVIOUS
<1>1. DrainInv /\ ProjectInv
  BY InvInit, ProjectInit DEF CaptureInit
<1>2. MarkInv
  BY DEF CaptureInit, Init, MarkInv
<1>3. HookInv
  <2>1. /\ DOMAIN hook = Receipts /\ DOMAIN said = Receipts /\ DOMAIN temp = Receipts /\ DOMAIN payload = Receipts
    BY DEF CaptureInit, HookInit
  <2>2. ASSUME NEW r \in Receipts PROVE HookOf(r)
    <3>1. /\ asked[r] \in CaptureArgs /\ hook[r] = "idle" /\ said[r] = None /\ temp[r] = "absent"
          /\ r \notin published
      BY HookAssumption DEF CaptureInit, HookInit, Init
    <3> QED BY <3>1, HookAssumption DEF HookOf, HookOK, HookPoints, Early, EarlyFault
  <2> QED BY <2>1, <2>2 DEF HookInv
<1>4. ReportInv
  <2>1. published = {} /\ IsFiniteSet(published)
    BY FS_EmptySet DEF CaptureInit, Init
  <2>2. ASSUME NEW w \in Workers PROVE ReportOf(w)
    <3>1. report[w] = "quiet" /\ listed[w] = {} /\ counted[w] = NoStatus /\ windows[w] = {}
      BY DEF CaptureInit, ReportInit
    <3> QED BY <3>1 DEF ReportOf, ReportOK, ReportPoints, NoStatus, Counts
  <2>3. DOMAIN report = Workers /\ DOMAIN listed = Workers /\ DOMAIN counted = Workers /\ DOMAIN windows = Workers
    BY DEF CaptureInit, ReportInit
  <2> QED BY <2>1, <2>2, <2>3 DEF ReportInv
<1> QED BY <1>1, <1>2, <1>3, <1>4 DEF CaptureInv

LEMMA CaptureInvStep == CaptureInv /\ [CaptureNext]_allVars => CaptureInv'
<1> SUFFICES ASSUME CaptureInv, [CaptureNext]_allVars PROVE CaptureInv'
  OBVIOUS
<1>0. [Next]_vars \/ FaultOnly
  BY CaptureStep
<1>1. DrainInv'
  BY <1>0, InvStep, FaultStep DEF CaptureInv
<1>2. ProjectInv'
  <2>1. ASSUME FaultOnly PROVE ProjectInv'
    BY <2>1 DEF FaultOnly, files, local, CaptureInv, ProjectInv
  <2> QED BY <1>0, <2>1, ProjectStep DEF CaptureInv
<1>3. MarkInv'
  <2>1. ASSUME FaultOnly PROVE MarkInv'
    BY <2>1 DEF FaultOnly, files, local, CaptureInv, MarkInv
  <2> QED BY <1>0, <2>1, MarkStep DEF CaptureInv
<1>4. HookInv'
  <2>1. ASSUME NEW w \in Workers, DrainStep(w) \/ ReportStep(w) PROVE UNCHANGED hookVars /\ UNCHANGED published
    BY <2>1 DEF DrainStep, ReportStep, BeginReport, ListPending, CountPending, CountLetters, write_current_status,
       ReportDies, vars, Start, Acquire, Busy, CleanSource, Unmark, List, Claim, Load, Persist,
       mark_completed, dead_letter, Retire, Reconcile, Project, Reconciled, Release, FailItem, FailDrain, Crash
  <2>2. ASSUME (Age /\ UNCHANGED <<hookVars, reportVars>>) \/ UNCHANGED allVars
        PROVE  UNCHANGED hookVars /\ UNCHANGED published
    BY <2>2 DEF Age, allVars, vars
  <2> QED BY <2>1, <2>2, HookStays, HookStepInv DEF CaptureInv, CaptureNext
<1>5. ReportInv'
  BY <1>1, ReportStepInv DEF CaptureInv
<1> QED BY <1>1, <1>2, <1>3, <1>4, <1>5 DEF CaptureInv

LEMMA CaptureInvHolds == CaptureSpec => []CaptureInv
BY CaptureInvInit, CaptureInvStep, PTL DEF CaptureSpec

\* Wherever a hook dies or fails: a receipt in the directory is whole and carries
\* all tuples of a push or none with the reason, "recorded" in the hook log
\* stands for a receipt that is a file, an entry or a letter, a fault from
\* before the publication for none; and past reconcile the last projection of
\* every reference transaction fits the log.
THEOREM HooksHonest == CaptureSpec => []CaptureSound
<1>1. CaptureInv => CaptureSound
  BY HookHolds, ProjectHolds DEF CaptureInv, CaptureSound
<1> QED BY <1>1, CaptureInvHolds, PTL

\* write_current_status, without the lock: status.json never counts fewer
\* receipts than stayed open from the listing to the write, nor more letters
\* than there are.
THEOREM StatusCorrect == CaptureSpec => StatusNeverHides
<1> DEFINE Shows == \A w \in Workers : report[w] # report'[w] /\ status' # status =>
             /\ status'.pending >= Cardinality(windows[w] \intersect Open)
             /\ status'.dead <= Cardinality(dead)
<1>1. ASSUME CaptureInv, CaptureNext PROVE Shows
  <2>1. (\E v \in Workers : write_current_status(v)) \/ status' = status
    <3>1. ASSUME NEW r \in Receipts, HookStep(r) PROVE status' = status
      BY <3>1 DEF HookStep, HookStart, Run, ensure_private_dir, receipt_id, CreateTemp, WriteTemp, LinkReceipt,
         UnlinkTemp, SyncDirectory, spawn_worker, HookFails, HookDies, Plant, Quietly, FaultVars, reportVars
    <3>2. ASSUME NEW v \in Workers, DrainStep(v) PROVE status' = status
      BY <3>2 DEF DrainStep, reportVars
    <3>3. ASSUME NEW v \in Workers, ReportStep(v) PROVE write_current_status(v) \/ status' = status
      BY <3>3 DEF ReportStep, BeginReport, ListPending, CountPending, CountLetters, ReportDies
    <3> QED BY <1>1, <3>1, <3>2, <3>3 DEF CaptureNext, reportVars
  <2>2. ASSUME NEW v \in Workers, write_current_status(v), NEW w \in Workers, report[w] # report'[w]
        PROVE  /\ status'.pending >= Cardinality(windows[w] \intersect Open)
               /\ status'.dead <= Cardinality(dead)
    <3>1. DOMAIN report = Workers /\ ReportOf(v) /\ IsFiniteSet(published)
      BY <1>1 DEF CaptureInv, ReportInv
    <3>2. w = v
      BY <2>2, <3>1 DEF write_current_status, ReportGoto
    <3>3. /\ counted[v] \in Counts /\ Cardinality(windows[v] \intersect Open) <= counted[v].pending
          /\ counted[v].dead <= Cardinality(dead) /\ windows[v] \subseteq published
      BY <2>2, <3>1 DEF write_current_status, ReportOf, ReportOK
    <3>4. status'.pending = counted[v].pending /\ status'.dead = counted[v].dead
      BY <2>2, <3>3 DEF write_current_status, atomic_replace_private, Counts
    <3>5. Cardinality(windows[v] \intersect Open) \in Nat /\ counted[v].pending \in Nat
      BY <3>1, <3>3, FS_Subset, FS_CardinalityType DEF Counts
    <3> QED BY <3>2, <3>3, <3>4, <3>5
  <2> QED BY <2>1, <2>2
<1>2. CaptureInv /\ [CaptureNext]_allVars => [Shows]_allVars
  BY <1>1
<1> QED BY <1>2, CaptureInvHolds, PTL DEF CaptureSpec, StatusNeverHides
==============================================================================
