-------------------------- MODULE SerializerProofs --------------------------
(* Machine-checked proofs about Serializer, for every instance. *)
EXTENDS Serializer, FiniteSetTheorems, WellFoundedInduction, TLAPS

\* What a sequence is made of after an append: the log stays a sequence of its
\* own elements.
LEMMA AppendOwn ==
  ASSUME NEW s, IsSequence(s), NEW e
  PROVE  /\ IsSequence(Append(s, e))
         /\ Len(Append(s, e)) = Len(s) + 1
         /\ \A i \in 1..Len(s) : Append(s, e)[i] = s[i]
         /\ Append(s, e)[Len(s) + 1] = e
         /\ Len(s) \in Nat
<1> DEFINE S == Elements(s) \union {e}
           a == Append(s, e)
<1>1. s \in Seq(S) /\ e \in S
  BY DEF IsSequence
<1>2. /\ a \in Seq(S) /\ Len(a) = Len(s) + 1 /\ Len(s) \in Nat
      /\ \A i \in 1..Len(s) : a[i] = s[i]
      /\ a[Len(s) + 1] = e
  BY <1>1
<1>3. a \in Seq(Elements(a))
  BY <1>2 DEF Elements
<1> QED BY <1>2, <1>3 DEF IsSequence

\* The same for the log variable: what a step that appends leaves in place.
LEMMA LogGrows ==
  ASSUME IsSequence(log), NEW e, log' = Append(log, e)
  PROVE  /\ IsSequence(log)'
         /\ Len(log') = Len(log) + 1 /\ Len(log) \in Nat
         /\ \A i \in 1..Len(log) : log'[i] = log[i]
         /\ log'[Len(log) + 1] = e
BY AppendOwn

-----------------------------------------------------------------------------
(* The gate: permits. *)

\* A thread past the gate has a call; one about to record the peak observed a
\* count below Capacity when it won its compare-exchange; the count never
\* exceeds the peak by more than what some thread is about to record.
CallInv == \A t \in Threads : pc[t] # "idle" => call[t] \in Calls
WinInv == \A t \in Threads : pc[t] = "peak" => cur[t] < Capacity
PeakInv == \/ in_use <= peak
           \/ \E t \in Threads : pc[t] = "peak" /\ in_use <= cur[t] + 1

GateInv == /\ TypeOK /\ CallInv /\ WinInv /\ PeakInv
           /\ PermitAccounting /\ PermitsBounded

\* Moving one thread in or out of the set of permit holders moves its size by
\* one.
LEMMA PermitCount ==
  ASSUME NEW S, NEW T, NEW D, IsFiniteSet(D), S \in SUBSET D, NEW t \in D
  PROVE  /\ Cardinality(S) \in Nat
         /\ t \notin S /\ T = S \union {t} => Cardinality(T) = Cardinality(S) + 1
         /\ t \in S /\ T = S \ {t} => Cardinality(T) = Cardinality(S) - 1
         /\ t \in S => Cardinality(S) > 0
<1>1. IsFiniteSet(S)
  BY FS_Subset
<1>2. Cardinality(S) \in Nat
  BY <1>1, FS_CardinalityType
<1>3. t \notin S => Cardinality(S \union {t}) = Cardinality(S) + 1
  BY <1>1, FS_AddElement
<1>4. t \in S => Cardinality(S \ {t}) = Cardinality(S) - 1
  BY <1>1, FS_RemoveElement
<1>5. t \in S => Cardinality(S) # 0
  BY <1>1, FS_EmptySet
<1>6. t \notin S /\ T = S \union {t} => Cardinality(T) = Cardinality(S) + 1
  BY <1>3, Zenon
<1>7. t \in S /\ T = S \ {t} => Cardinality(T) = Cardinality(S) - 1
  BY <1>4, Zenon
<1>8. t \in S => Cardinality(S) > 0
  BY <1>2, <1>5
<1> QED BY <1>2, <1>6, <1>7, <1>8

LEMMA GateInit == Init => GateInv
<1> SUFFICES ASSUME Init PROVE GateInv
  OBVIOUS
<1> USE DEF Init
<1>1. TypeOK
  <2>1. IsSequence(log) /\ audited \in Nat /\ calls \in 0..MaxCalls /\ panics \in 0..MaxPanics
    BY SerializerAssumption
  <2>2. mutex \in Threads \union {None} /\ poisoned \in BOOLEAN
    OBVIOUS
  <2>3. in_use \in Nat /\ peak \in Nat /\ pc \in [Threads -> Points]
    BY DEF Points
  <2>4. call \in [Threads -> Calls \union {None}] /\ cur \in [Threads -> Nat]
    OBVIOUS
  <2>5. DOMAIN plan = Threads /\ DOMAIN result = Threads
    OBVIOUS
  <2> QED BY <2>1, <2>2, <2>3, <2>4, <2>5 DEF TypeOK
<1>2. CallInv /\ WinInv /\ PeakInv
  BY DEF CallInv, WinInv, PeakInv
<1>3. {t \in Threads : HasPermit(t)} = {}
  BY DEF HasPermit
<1>4. Cardinality({t \in Threads : HasPermit(t)}) = 0
  BY <1>3, FS_EmptySet, Zenon
<1>5. PermitAccounting /\ PermitsBounded
  BY <1>4, SerializerAssumption DEF PermitAccounting, PermitsBounded
<1> QED BY <1>1, <1>2, <1>5 DEF GateInv

\* Every step keeps the types.
LEMMA TypeStep == TypeOK /\ CallInv /\ [Next]_vars => TypeOK' /\ CallInv'
<1> SUFFICES ASSUME TypeOK, CallInv, [Next]_vars PROVE TypeOK' /\ CallInv'
  OBVIOUS
<1> USE DEF TypeOK, CallInv, Goto, Return, Points, gateVars, lockVars, dataVars,
            countVars, Forget
<1>1. ASSUME NEW t \in Threads, NEW c \in Calls, Begin(t, c)
      PROVE TypeOK' /\ CallInv'
  BY <1>1, SerializerAssumption DEF Begin
<1>2. ASSUME NEW t \in Threads, Load(t) \/ Backpressure(t) \/ AcquireCas(t) \/ RecordPeak(t) \/ ReleaseLoad(t) \/ ReleaseCas(t)
      PROVE TypeOK' /\ CallInv'
  <2>1. CASE Load(t)
    BY <2>1, SerializerAssumption DEF Load
  <2>2. CASE Backpressure(t)
    BY <2>2, SerializerAssumption DEF Backpressure
  <2>3. CASE AcquireCas(t)
    BY <2>3, SerializerAssumption DEF AcquireCas
  <2>4. CASE RecordPeak(t)
    BY <2>4, SerializerAssumption DEF RecordPeak
  <2>5. CASE ReleaseLoad(t)
    BY <2>5, SerializerAssumption DEF ReleaseLoad
  <2>6. CASE ReleaseCas(t)
    <3>1. CASE in_use = cur[t]
      <4>1. cur[t] \in Nat
        OBVIOUS
      <4>2. in_use' \in Nat
        BY <2>6, <3>1, <4>1 DEF ReleaseCas
      <4>3. cur' \in [Threads -> Nat] /\ call' \in [Threads -> Calls \union {None}]
        BY <2>6, <3>1 DEF ReleaseCas
      <4>4. CallInv' /\ pc' \in [Threads -> Points]
        BY <2>6, <3>1 DEF ReleaseCas
      <4> QED BY <2>6, <3>1, <4>2, <4>3, <4>4 DEF ReleaseCas
    <3>2. CASE in_use # cur[t]
      BY <2>6, <3>2, SerializerAssumption DEF ReleaseCas
    <3> QED BY <3>1, <3>2
  <2> QED BY <1>2, <2>1, <2>2, <2>3, <2>4, <2>5, <2>6
<1>3. ASSUME NEW t \in Threads, Hook(t) \/ Lock(t) \/ LockPoisoned(t) \/ Unlock(t) \/ Panic(t)
      PROVE TypeOK' /\ CallInv'
  <2>1. CASE Hook(t)
    BY <2>1, SerializerAssumption DEF Hook
  <2>2. CASE Lock(t)
    BY <2>2, SerializerAssumption DEF Lock
  <2>3. CASE LockPoisoned(t)
    BY <2>3, SerializerAssumption DEF LockPoisoned
  <2>4. CASE Unlock(t)
    BY <2>4, SerializerAssumption DEF Unlock
  <2>5. CASE Panic(t)
    BY <2>5, SerializerAssumption DEF Panic
  <2> QED BY <1>3, <2>1, <2>2, <2>3, <2>4, <2>5
<1>4. ASSUME NEW t \in Threads, ReadUndo(t) \/ ReadImport(t)
      PROVE TypeOK' /\ CallInv'
  <2>1. CASE ReadUndo(t)
    <3> DEFINE comp == compute_compensation(log, call[t].target)
    <3>1. CASE comp = None
      BY <2>1, <3>1 DEF ReadUndo
    <3>2. CASE comp # None
      BY <2>1, <3>2 DEF ReadUndo
    <3> QED BY <3>1, <3>2
  <2>2. CASE ReadImport(t)
    <3> DEFINE ok == import_admissible(log, call[t].payload.intent,
                                       call[t].payload.ref)
    <3>1. CASE ~ok
      BY <2>2, <3>1 DEF ReadImport
    <3>2. CASE ok
      BY <2>2, <3>2 DEF ReadImport
    <3> QED BY <3>1, <3>2
  <2> QED BY <1>4, <2>1, <2>2
<1>5. ASSUME NEW t \in Threads, Decide(t)
      PROVE TypeOK' /\ CallInv'
  <2>1. \/ log' = log
        \/ log' = Append(log, NewRecord(log, "authz.denied", call[t].chain,
                                        NoPayload))
    BY <1>5 DEF Decide, audit_denial, append
  <2>2. IsSequence(log)'
    BY <2>1, LogGrows
  <2> DEFINE ok == authorize(call[t].chain,
                     IF call[t].verb = "undo" THEN "Undo" ELSE "Push")
  <2>3. CASE ok
    BY <1>5, <2>2, <2>3 DEF Decide
  <2>4. CASE ~ok
    BY <1>5, <2>2, <2>4 DEF Decide
  <2> QED BY <2>3, <2>4
<1>6. ASSUME NEW t \in Threads, AppendRecord(t)
      PROVE TypeOK' /\ CallInv'
  <2>1. IsSequence(log)'
    BY <1>6, LogGrows DEF AppendRecord, append
  <2> QED BY <1>6, <2>1 DEF AppendRecord
<1>7. CASE UNCHANGED vars
  BY <1>7 DEF vars
<1> QED BY <1>1, <1>2, <1>3, <1>4, <1>5, <1>6, <1>7 DEF Next, Step, Quiescent

\* A step that moves no thread across the gate and leaves the count alone.
LEMMA GateFrame ==
  ASSUME TypeOK, PermitAccounting, in_use' = in_use,
         \A t \in Threads : HasPermit(t)' <=> HasPermit(t)
  PROVE  PermitAccounting'
<1>1. {t \in Threads : HasPermit(t)}' = {t \in Threads : HasPermit(t)}
  OBVIOUS
<1> QED BY <1>1, Zenon DEF PermitAccounting

LEMMA GateStep == GateInv /\ [Next]_vars => GateInv'
<1> SUFFICES ASSUME GateInv, [Next]_vars PROVE GateInv'
  OBVIOUS
<1>0. TypeOK' /\ CallInv'
  BY TypeStep DEF GateInv
<1> DEFINE P == {t \in Threads : HasPermit(t)}
           Rest == WinInv /\ PeakInv /\ PermitAccounting /\ PermitsBounded
<1> USE DEF GateInv, WinInv, PeakInv, PermitsBounded, Goto, Return, Forget,
            gateVars, lockVars, dataVars, countVars
<1>1. ASSUME NEW t \in Threads, AcquireCas(t)
      PROVE  Rest'
  <2>1. CASE in_use = cur[t]
    <3>1. P' = P \union {t} /\ t \notin P /\ in_use' = in_use + 1
      BY <1>1, <2>1 DEF AcquireCas, HasPermit, TypeOK, Points
    <3>2. Cardinality(P') = Cardinality(P) + 1
      BY <3>1, PermitCount, SerializerAssumption
    <3>3. PermitAccounting'
      BY <3>1, <3>2 DEF PermitAccounting
    <3> QED BY <1>1, <2>1, <3>3, SerializerAssumption DEF AcquireCas, TypeOK
  <2>2. CASE in_use # cur[t]
    <3>1. PermitAccounting'
      BY <1>1, <2>2, GateFrame DEF AcquireCas, HasPermit
    <3> QED BY <1>1, <2>2, <3>1 DEF AcquireCas, TypeOK
  <2> QED BY <2>1, <2>2
<1>2. ASSUME NEW t \in Threads, ReleaseCas(t)
      PROVE  Rest'
  <2>1. CASE in_use = cur[t]
    <3>1. P' = P \ {t} /\ t \in P
      BY <1>2, <2>1 DEF ReleaseCas, HasPermit, TypeOK, Points
    <3>2. Cardinality(P') = Cardinality(P) - 1 /\ Cardinality(P) > 0
      BY <3>1, PermitCount, SerializerAssumption
    <3>3. in_use' = in_use - 1
      BY <1>2, <2>1, <3>2 DEF ReleaseCas, PermitAccounting
    <3>4. PermitAccounting'
      BY <3>2, <3>3 DEF PermitAccounting
    <3> QED BY <1>2, <2>1, <3>3, <3>4, SerializerAssumption DEF ReleaseCas, TypeOK
  <2>2. CASE in_use # cur[t]
    <3>1. PermitAccounting'
      BY <1>2, <2>2, GateFrame DEF ReleaseCas, HasPermit
    <3> QED BY <1>2, <2>2, <3>1 DEF ReleaseCas, TypeOK
  <2> QED BY <2>1, <2>2
<1>3. ASSUME NEW t \in Threads, RecordPeak(t)
      PROVE  Rest'
  <2>1. PermitAccounting'
    BY <1>3, GateFrame DEF RecordPeak, HasPermit, TypeOK, Points
  <2> QED BY <1>3, <2>1, SerializerAssumption DEF RecordPeak, TypeOK
<1>4. ASSUME NEW t \in Threads, NEW c \in Calls, Begin(t, c)
      PROVE  Rest'
  <2>1. PermitAccounting'
    BY <1>4, GateFrame DEF Begin, HasPermit, TypeOK, Points
  <2> QED BY <1>4, <2>1 DEF Begin, TypeOK
<1>5. ASSUME NEW t \in Threads, Load(t) \/ Backpressure(t)
      PROVE  Rest'
  <2>1. PermitAccounting'
    BY <1>5, GateFrame DEF Load, Backpressure, HasPermit, TypeOK, Points
  <2> QED BY <1>5, <2>1 DEF Load, Backpressure, TypeOK
<1>6. ASSUME NEW t \in Threads,
             \/ ReleaseLoad(t) \/ Hook(t) \/ Lock(t) \/ LockPoisoned(t)
             \/ Unlock(t) \/ Panic(t) \/ ReadUndo(t) \/ ReadImport(t)
             \/ Decide(t) \/ AppendRecord(t)
      PROVE  Rest'
  <2>1. PICK p \in Points \ {"idle", "gate", "cas", "peak"} :
          pc' = [pc EXCEPT ![t] = p]
    BY <1>6 DEF ReleaseLoad, Hook, Lock, LockPoisoned, Unlock, Panic,
                ReadUndo, ReadImport, Decide, AppendRecord, Points
  <2>2. HasPermit(t) /\ pc[t] # "peak" /\ in_use' = in_use /\ peak' = peak
    BY <1>6 DEF ReleaseLoad, Hook, Lock, LockPoisoned, Unlock, Panic,
                ReadUndo, ReadImport, Decide, AppendRecord, Points, HasPermit
  <2>3. \A u \in Threads : pc[u] = "peak" => cur'[u] = cur[u]
    BY <1>6, <2>2 DEF ReleaseLoad, Hook, Lock, LockPoisoned, Unlock, Panic,
                ReadUndo, ReadImport, Decide, AppendRecord, TypeOK
  <2>4. PermitAccounting'
    BY <2>1, <2>2, GateFrame DEF HasPermit, TypeOK
  <2> QED BY <2>1, <2>2, <2>3, <2>4 DEF TypeOK
<1>7. ASSUME UNCHANGED vars PROVE Rest'
  <2>1. PermitAccounting'
    BY <1>7, GateFrame DEF vars, HasPermit
  <2>2. in_use' = in_use /\ peak' = peak /\ pc' = pc /\ cur' = cur
    BY <1>7 DEF vars
  <2> QED BY <2>1, <2>2
<1>8. Rest'
  BY <1>1, <1>2, <1>3, <1>4, <1>5, <1>6, <1>7 DEF Next, Step, Quiescent
<1> QED BY <1>0, <1>8

\* Types hold in every reachable state of the writer.
THEOREM TypeCorrect == Spec => []TypeOK
<1>1. GateInv => TypeOK
  BY DEF GateInv
<1> QED BY <1>1, GateInit, GateStep, PTL DEF Spec

\* Whatever the number of threads and the capacity, Semaphore::try_acquire and
\* the Drop of its permit keep the count equal to the calls admitted and not
\* yet done, within the capacity, the reported peak included.
THEOREM GateCorrect == Spec => []GateSound
<1>1. GateInv => GateSound
  BY DEF GateInv, PeakInv, PeakIsHighWater, GateSound
<1> QED BY <1>1, GateInit, GateStep, PTL DEF Spec

-----------------------------------------------------------------------------
(* The critical section: one writer, and the log it builds. *)

\* The event a thread computed is still the one the current log calls for.
PlanInv ==
  \A t \in Threads :
    /\ pc[t] = "read" => call[t].verb # "submit"
    /\ (pc[t] = "decide" /\ call[t].verb = "undo") \/ pc[t] = "append" =>
         Admits(log, call[t]) /\ plan[t] = Wanted(log, call[t])
    /\ pc[t] = "append" => Permitted(call[t])
    /\ pc[t] = "decide" => call[t].verb # "import"

WriterInv == OneWriter /\ PlanInv

\* What each verb wants appended.
LEMMA WantedByVerb ==
  ASSUME NEW l, NEW c
  PROVE  /\ c.verb = "submit" =>
              Wanted(l, c) = [kind |-> c.kind, payload |-> c.payload]
         /\ c.verb = "undo" => Wanted(l, c) = compute_compensation(l, c.target)
         /\ c.verb = "import" =>
              Wanted(l, c) =
                [kind |-> "intent.landed",
                 payload |-> import_payload(c.payload.intent, c.payload.ref,
                                            c.payload.target)]
BY DEF Wanted

LEMMA WriterInit == Init => WriterInv
BY SerializerAssumption DEF Init, WriterInv, OneWriter, PlanInv, InCritical

\* A step of a thread that leaves log, mutex and calls alone and moves only
\* that thread, between points outside the critical section.
LEMMA WriterStep == GateInv /\ WriterInv /\ [Next]_vars => WriterInv'
<1> SUFFICES ASSUME GateInv, WriterInv, [Next]_vars PROVE WriterInv'
  OBVIOUS
<1> USE SerializerAssumption
    DEF GateInv, TypeOK, CallInv, WriterInv, OneWriter, PlanInv, InCritical, Goto,
        Return, Forget, gateVars, lockVars, dataVars, countVars
<1>1. ASSUME NEW t \in Threads, NEW c \in Calls, Begin(t, c)
      PROVE  WriterInv'
  BY <1>1 DEF Begin
<1>2. ASSUME NEW t \in Threads, Load(t)
      PROVE  WriterInv'
  BY <1>2 DEF Load
<1>3. ASSUME NEW t \in Threads, Backpressure(t)
      PROVE  WriterInv'
  BY <1>3 DEF Backpressure
<1>4. ASSUME NEW t \in Threads, AcquireCas(t)
      PROVE  WriterInv'
  BY <1>4 DEF AcquireCas
<1>5. ASSUME NEW t \in Threads, RecordPeak(t)
      PROVE  WriterInv'
  BY <1>5 DEF RecordPeak
<1>6. ASSUME NEW t \in Threads, ReleaseLoad(t)
      PROVE  WriterInv'
  BY <1>6 DEF ReleaseLoad
<1>7. ASSUME NEW t \in Threads, ReleaseCas(t)
      PROVE  WriterInv'
  BY <1>7 DEF ReleaseCas
<1>8. ASSUME NEW t \in Threads, Hook(t)
      PROVE  WriterInv'
  BY <1>8 DEF Hook
<1>9. ASSUME NEW t \in Threads, Lock(t)
      PROVE  WriterInv'
  BY <1>9 DEF Lock, CallType
<1>10. ASSUME NEW t \in Threads, LockPoisoned(t)
      PROVE  WriterInv'
  BY <1>10 DEF LockPoisoned
<1>11. ASSUME NEW t \in Threads, Unlock(t)
      PROVE  WriterInv'
  BY <1>11 DEF Unlock
<1>12. ASSUME NEW t \in Threads, Panic(t)
      PROVE  WriterInv'
  BY <1>12 DEF Panic
<1>13. ASSUME NEW t \in Threads, ReadUndo(t)
      PROVE  WriterInv'
  <2>1. mutex = t /\ \A u \in Threads \ {t} : ~InCritical(u)
    BY <1>13 DEF ReadUndo
  <2>2. /\ pc'[t] \in {"decide", "unlock"} /\ mutex' = mutex /\ call' = call
        /\ \A u \in Threads \ {t} : pc'[u] = pc[u]
        /\ call[t].verb = "undo" /\ log' = log
    BY <1>13 DEF ReadUndo
  <2>3. OneWriter'
    BY <2>1, <2>2
  <2>4. pc'[t] = "decide" =>
          Admits(log, call[t]) /\ plan'[t] = Wanted(log, call[t])
    BY <1>13, WantedByVerb DEF ReadUndo, Admits
  <2> QED BY <2>1, <2>2, <2>3, <2>4
<1>14. ASSUME NEW t \in Threads, ReadImport(t)
      PROVE  WriterInv'
  <2>1. mutex = t /\ \A u \in Threads \ {t} : ~InCritical(u)
    BY <1>14 DEF ReadImport
  <2>2. /\ pc'[t] \in {"decide", "append", "unlock"} /\ mutex' = mutex /\ call' = call
        /\ \A u \in Threads \ {t} : pc'[u] = pc[u]
    BY <1>14 DEF ReadImport
  <2>3. OneWriter'
    BY <2>1, <2>2
  <2>4. pc'[t] = "append" =>
          /\ log' = log
          /\ Admits(log, call[t]) /\ plan'[t] = Wanted(log, call[t])
          /\ Permitted(call[t])
    BY <1>14, WantedByVerb DEF ReadImport, Admits, Permitted
  <2>5. pc'[t] # "decide"
    BY <1>14 DEF ReadImport
  <2> QED BY <2>1, <2>2, <2>3, <2>4, <2>5
<1>15. ASSUME NEW t \in Threads, Decide(t)
      PROVE  WriterInv'
  <2>1. mutex = t /\ \A u \in Threads \ {t} : ~InCritical(u)
    BY <1>15 DEF Decide
  <2>2. /\ pc'[t] \in {"decide", "append", "unlock"} /\ mutex' = mutex /\ call' = call
        /\ \A u \in Threads \ {t} : pc'[u] = pc[u]
    BY <1>15 DEF Decide
  <2>3. OneWriter'
    BY <2>1, <2>2
  <2>4. pc'[t] # "decide"
    BY <1>15 DEF Decide
  <2>5. CASE pc'[t] = "append" /\ call[t].verb = "undo"
    <3>1. plan' = plan /\ log' = log /\ authorize(call[t].chain, "Undo")
      BY <1>15, <2>5 DEF Decide
    <3>2. Permitted(call[t])
      BY <2>5, <3>1 DEF Permitted
    <3> QED BY <1>15, <2>1, <2>2, <2>3, <2>5, <3>1, <3>2 DEF Decide
  <2>6. CASE pc'[t] = "append" /\ call[t].verb # "undo"
    <3>1. call[t].verb = "submit"
      BY <1>15, <2>6 DEF Decide, CallType
    <3>2. /\ plan'[t] = [kind |-> call[t].kind, payload |-> call[t].payload]
          /\ log' = log /\ authorize(call[t].chain, "Push")
      BY <1>15, <2>6 DEF Decide
    <3>3. /\ Permitted(call[t]) /\ Admits(log, call[t])
          /\ plan'[t] = Wanted(log, call[t])
      BY <3>1, <3>2, WantedByVerb DEF Permitted, Admits
    <3> QED BY <2>1, <2>2, <2>3, <2>6, <3>2, <3>3
  <2>7. CASE pc'[t] = "unlock"
    BY <2>1, <2>2, <2>3, <2>7
  <2> QED BY <2>2, <2>4, <2>5, <2>6, <2>7
<1>16. ASSUME NEW t \in Threads, AppendRecord(t)
      PROVE  WriterInv'
  <2>1. mutex = t /\ \A u \in Threads \ {t} : ~InCritical(u)
    BY <1>16 DEF AppendRecord
  <2>2. /\ pc'[t] \in {"decide", "append", "unlock"} /\ mutex' = mutex /\ call' = call
        /\ \A u \in Threads \ {t} : pc'[u] = pc[u]
    BY <1>16 DEF AppendRecord
  <2>3. OneWriter'
    BY <2>1, <2>2
  <2>4. pc'[t] = "unlock"
    BY <1>16 DEF AppendRecord
  <2> QED BY <2>1, <2>2, <2>3, <2>4
<1>17. CASE UNCHANGED vars
  BY <1>17 DEF vars
<1> QED BY <1>1, <1>2, <1>3, <1>4, <1>5, <1>6, <1>7, <1>8, <1>9, <1>10, <1>11,
           <1>12, <1>13, <1>14, <1>15, <1>16, <1>17 DEF Next, Step, Quiescent

\* For every number of threads, the mutex belongs to exactly the thread inside
\* its critical section.
THEOREM Exclusive == Spec => []OneWriter
<1>1. WriterInv => OneWriter
  BY DEF WriterInv
<1> QED BY <1>1, GateInit, GateStep, WriterInit, WriterStep, PTL DEF Spec

-----------------------------------------------------------------------------
(* Refinement. *)

\* The log changes only in the two steps that write it, and then by the whole
\* effect of the call in progress.
LEMMA AtomicStep ==
  GateInv /\ WriterInv /\ [Next]_vars => [Atomic!Next]_log
<1> SUFFICES ASSUME GateInv, WriterInv, [Next]_vars, log' # log
             PROVE  Atomic!Next
  OBVIOUS
<1> USE DEF GateInv, TypeOK, CallInv, WriterInv, OneWriter, PlanInv, InCritical,
            Goto, Return, Forget, gateVars, lockVars, dataVars, countVars
<1>1. ASSUME NEW t \in Threads, Decide(t)
      PROVE  Atomic!Next
  <2>1. /\ log' = audit_denial(log, call[t].chain) /\ call[t] \in Calls
        /\ ~authorize(call[t].chain, IF call[t].verb = "undo" THEN "Undo" ELSE "Push")
    BY <1>1 DEF Decide
  <2>2. ~Permitted(call[t])
    BY <1>1, <2>1 DEF Permitted, Decide
  <2>3. Admits(log, call[t])
    BY <1>1, <2>1, SerializerAssumption DEF Admits, Decide, CallType
  <2>4. log' = Effect(log, call[t])
    BY <2>1, <2>2, <2>3 DEF Effect
  <2> QED BY <2>1, <2>4 DEF Atomic!Next
<1>2. ASSUME NEW t \in Threads, AppendRecord(t)
      PROVE  Atomic!Next
  <2>1. /\ log' = append(log, plan[t].kind, call[t].chain, plan[t].payload)
        /\ call[t] \in Calls /\ Permitted(call[t]) /\ Admits(log, call[t])
        /\ plan[t] = Wanted(log, call[t])
    BY <1>2 DEF AppendRecord
  <2>2. log' = Effect(log, call[t])
    BY <2>1 DEF Effect
  <2> QED BY <2>1, <2>2 DEF Atomic!Next
<1>3. \E t \in Threads : Decide(t) \/ AppendRecord(t)
  BY DEF Next, Step, Quiescent, vars, Begin, Load, Backpressure, AcquireCas,
         RecordPeak, Hook, Lock, LockPoisoned, ReadUndo, ReadImport, Unlock,
         ReleaseLoad, ReleaseCas, Panic
<1> QED BY <1>1, <1>2, <1>3

\* The serialized writer implements the atomic one, for every set of calls.
THEOREM Refinement == Spec => ImplementsAtomicWriter
<1>1. Init => Atomic!Init
  BY DEF Init, Atomic!Init
<1> QED BY <1>1, AtomicStep, GateInit, GateStep, WriterInit, WriterStep, PTL
        DEF Spec, ImplementsAtomicWriter, Atomic!Spec

-----------------------------------------------------------------------------
(* The chain, and the records callers were promised. *)

Unredacted(l) == \A i \in 1..Len(l) : l[i].kind # "provenance.redaction"

PlainChain(l) ==
  \A i \in 1..Len(l) :
    /\ l[i].seq = i - 1
    /\ l[i].prev = IF i = 1 THEN Genesis ELSE l[i - 1].this
    /\ l[i].this = recompute(l[i])

\* Without redaction markers the verifier is the plain chain check.
LEMMA PlainVerify ==
  ASSUME NEW l, Unredacted(l)
  PROVE  verify_chain(l) <=> PlainChain(l)
<1>1. DOMAIN collect_redactions(l) = {}
  BY DEF collect_redactions, Unredacted
<1>2. \A r : ContentOK(r, collect_redactions(l)) <=> recompute(r) = r.this
  BY <1>1 DEF ContentOK
<1> QED BY <1>2 DEF verify_chain, PlainChain

\* Appending through NewRecord extends the chain.
LEMMA ChainGrows ==
  ASSUME NEW l, IsSequence(l), PlainChain(l), NEW k, NEW ch, NEW p
  PROVE  /\ PlainChain(append(l, k, ch, p))
         /\ Len(append(l, k, ch, p)) = Len(l) + 1 /\ Len(l) \in Nat
         /\ \A i \in 1..Len(l) : append(l, k, ch, p)[i] = l[i]
         /\ append(l, k, ch, p)[Len(l) + 1] = NewRecord(l, k, ch, p)
<1> DEFINE e == NewRecord(l, k, ch, p)
           a == append(l, k, ch, p)
<1>1. /\ Len(a) = Len(l) + 1 /\ Len(l) \in Nat
      /\ \A i \in 1..Len(l) : a[i] = l[i]
      /\ a[Len(l) + 1] = e
  BY AppendOwn DEF append
<1>2. /\ e.seq = Len(l) /\ e.this = recompute(e)
      /\ e.prev = head_hash(l)
  BY DEF NewRecord, recompute
<1>3. head_hash(l) = IF Len(l) = 0 THEN Genesis ELSE l[Len(l)].this
  BY DEF head_hash, IsSequence
<1>4. PlainChain(a)
  BY <1>1, <1>2, <1>3 DEF PlainChain
<1> QED BY <1>1, <1>4

\* No call wants a redaction marker appended.
LEMMA WantedKind ==
  ASSUME NEW c \in Calls, Admits(log, c)
  PROVE  Wanted(log, c).kind # "provenance.redaction"
<1>1. c.verb \in {"submit", "undo", "import"} /\ c.kind \in RefKinds \union {"note"}
  BY SerializerAssumption DEF CallType
<1>2. CASE c.verb = "submit"
  BY <1>1, <1>2, WantedByVerb DEF RefKinds
<1>3. CASE c.verb = "import"
  BY <1>3, WantedByVerb
<1>4. CASE c.verb = "undo"
  <2>1. compute_compensation(log, c.target) # None
    BY <1>4 DEF Admits
  <2>2. compute_compensation(log, c.target).kind \in {"ref.delete", "ref.update"}
    BY <2>1 DEF compute_compensation
  <2> QED BY <1>4, <2>2, WantedByVerb
<1> QED BY <1>1, <1>2, <1>3, <1>4

LogInv == /\ Unredacted(log) /\ PlainChain(log)
          /\ NoLostRecord
          /\ IsFiniteSet(returned) /\ LogAccounts

\* The records of a plain chain are pairwise different, so there are as many
\* as the chain is long.
LEMMA ChainCount ==
  ASSUME NEW l, IsSequence(l), PlainChain(l)
  PROVE  IsFiniteSet(Elements(l)) /\ Cardinality(Elements(l)) = Len(l)
<1> DEFINE n == Len(l)
           S == Elements(l)
           f == [i \in 1..n |-> l[i]]
<1>1. n \in Nat
  BY DEF IsSequence
<1>2. IsFiniteSet(1..n) /\ Cardinality(1..n) = n
  <2>1. 1 \in Int /\ n \in Int
    BY <1>1
  <2>2. IsFiniteSet(1..n) /\ Cardinality(1..n) = IF 1 > n THEN 0 ELSE n - 1 + 1
    BY <2>1, FS_Interval
  <2> QED BY <1>1, <2>2
<1>3. \A i, j \in 1..n : l[i] = l[j] => i = j
  BY <1>1 DEF PlainChain
<1>4. f \in [1..n -> S]
  BY DEF Elements
<1>5. \A i, j \in 1..n : f[i] = f[j] => i = j
  BY <1>3
<1>6. \A s \in S : \E i \in 1..n : f[i] = s
  BY DEF Elements
<1>7. f \in Bijection(1..n, S)
  BY <1>4, <1>5, <1>6 DEF Bijection, Injection, Surjection, IsInjective
<1>8. ExistsBijection(1..n, S)
  BY <1>7 DEF ExistsBijection
<1>9. IsFiniteSet(S) /\ Cardinality(S) = Cardinality(1..n)
  BY <1>2, <1>8, FS_Bijection
<1> QED BY <1>2, <1>9

LEMMA LogInit == Init => LogInv
<1> SUFFICES ASSUME Init PROVE LogInv
  OBVIOUS
<1>1. IsSequence(log) /\ Unredacted(log) /\ verify_chain(log)
  BY SerializerAssumption DEF Init, Unredacted
<1>2. PlainChain(log)
  BY <1>1, PlainVerify
<1>3. returned = Elements(log) /\ audited = 0
  BY DEF Init
<1>4. NoLostRecord
  BY <1>1, <1>2, <1>3 DEF NoLostRecord, PlainChain, IsSequence, Elements
<1>5. IsFiniteSet(returned) /\ Cardinality(returned) = Len(log) /\ Len(log) \in Nat
  BY <1>1, <1>2, <1>3, ChainCount DEF IsSequence
<1> QED BY <1>1, <1>2, <1>3, <1>4, <1>5 DEF LogInv, LogAccounts

\* A record appended through NewRecord keeps the chain and every promise.
LEMMA PromiseGrows ==
  ASSUME IsSequence(log), LogInv, audited \in Nat, NEW k, NEW ch, NEW p,
         k # "provenance.redaction", log' = append(log, k, ch, p),
         \/ returned' = returned /\ audited' = audited + 1
         \/ /\ returned' = returned \union {NewRecord(log, k, ch, p)}
            /\ audited' = audited
  PROVE  LogInv'
<1> DEFINE e == NewRecord(log, k, ch, p)
<1>1. /\ PlainChain(log') /\ Len(log') = Len(log) + 1 /\ Len(log) \in Nat
      /\ \A i \in 1..Len(log) : log'[i] = log[i]
      /\ log'[Len(log) + 1] = e
  BY ChainGrows DEF LogInv
<1>2. e.seq = Len(log) /\ e.kind = k
  BY DEF NewRecord
<1>3. Unredacted(log')
  BY <1>1, <1>2 DEF LogInv, Unredacted
<1>4. NoLostRecord'
  BY <1>1, <1>2 DEF LogInv, NoLostRecord
<1>5. e \notin returned
  BY <1>1, <1>2 DEF LogInv, NoLostRecord
<1>6. IsFiniteSet(returned) /\ Cardinality(returned) \in Nat
  BY FS_CardinalityType DEF LogInv
<1>7. /\ IsFiniteSet(returned \union {e})
      /\ Cardinality(returned \union {e}) = Cardinality(returned) + 1
  BY <1>5, <1>6, FS_AddElement
<1>8. IsFiniteSet(returned') /\ Cardinality(returned') + audited'
                                = Cardinality(returned) + audited + 1
  <2>1. CASE returned' = returned /\ audited' = audited + 1
    <3>1. Cardinality(returned') = Cardinality(returned) /\ IsFiniteSet(returned')
      BY <2>1, <1>6, Zenon
    <3> QED BY <3>1, <2>1, <1>6
  <2>2. CASE returned' = returned \union {e} /\ audited' = audited
    <3>1. /\ Cardinality(returned') = Cardinality(returned) + 1
          /\ IsFiniteSet(returned')
      BY <2>2, <1>7, Zenon
    <3> QED BY <3>1, <2>2, <1>6
  <2> QED BY <2>1, <2>2
<1>9. LogAccounts'
  BY <1>1, <1>6, <1>8 DEF LogAccounts, LogInv
<1> QED BY <1>1, <1>3, <1>4, <1>8, <1>9 DEF LogInv

LEMMA LogStep == GateInv /\ WriterInv /\ LogInv /\ [Next]_vars => LogInv'
<1> SUFFICES ASSUME GateInv, WriterInv, LogInv, [Next]_vars PROVE LogInv'
  OBVIOUS
<1>0. IsSequence(log) /\ audited \in Nat
  BY DEF GateInv, TypeOK
<1>1. ASSUME NEW t \in Threads, AppendRecord(t)
      PROVE  LogInv'
  <2>1. plan[t] = Wanted(log, call[t]) /\ Admits(log, call[t]) /\ call[t] \in Calls
    BY <1>1 DEF AppendRecord, WriterInv, PlanInv, GateInv, CallInv
  <2>2. plan[t].kind # "provenance.redaction"
    BY <2>1, WantedKind
  <2> QED BY <1>0, <1>1, <2>2, PromiseGrows DEF AppendRecord
<1>2. ASSUME NEW t \in Threads, Decide(t), audited' # audited
      PROVE  LogInv'
  <2>1. /\ log' = append(log, "authz.denied", call[t].chain, NoPayload)
        /\ returned' = returned /\ audited' = audited + 1
    BY <1>2 DEF Decide, audit_denial
  <2> QED BY <1>0, <2>1, PromiseGrows
<1>3. ASSUME log' = log, returned' = returned, audited' = audited
      PROVE  LogInv'
  BY <1>3 DEF LogInv, NoLostRecord, LogAccounts
<1>4. \/ \E t \in Threads : AppendRecord(t) \/ (Decide(t) /\ audited' # audited)
      \/ log' = log /\ returned' = returned /\ audited' = audited
  BY <1>0 DEF Next, Step, Quiescent, vars, Begin, Load, Backpressure, AcquireCas,
         RecordPeak, Hook, Lock, LockPoisoned, ReadUndo, ReadImport, Unlock,
         ReleaseLoad, ReleaseCas, Panic, gateVars, lockVars, dataVars, countVars,
         Decide
<1> QED BY <1>1, <1>2, <1>3, <1>4

\* For every number of threads, every capacity and every set of calls: the
\* chain the writers build verifies, no acknowledged record is ever lost or
\* overwritten, and every record is an acknowledged one or the audit of one
\* denial.
THEOREM LogCorrect == Spec => []LogSound
<1>1. LogInv => LogSound
  BY PlainVerify DEF LogInv, ChainIntact, LogSound
<1> QED BY <1>1, GateInit, GateStep, WriterInit, WriterStep, LogInit, LogStep, PTL
        DEF Spec

-----------------------------------------------------------------------------
(* An intent lands once. *)

\* What an admitted call appends names no intent that already landed.
LEMMA WantedIsNew ==
  ASSUME NEW c \in Calls, IntentsByImport, Admits(log, c),
         Wanted(log, c).kind = "intent.landed"
  PROVE  \/ Wanted(log, c).payload.intent = None
         \/ ~already_landed(log, Wanted(log, c).payload.intent)
<1>1. c.verb \in {"submit", "undo", "import"}
  BY SerializerAssumption DEF CallType
<1>2. CASE c.verb = "submit"
  BY <1>2, WantedByVerb DEF IntentsByImport
<1>3. CASE c.verb = "import"
  <2>1. Wanted(log, c).payload = import_payload(c.payload.intent, c.payload.ref,
                                                c.payload.target)
    BY <1>3, WantedByVerb
  <2>2. Wanted(log, c).payload.intent = c.payload.intent
    BY <2>1 DEF import_payload, NoPayload
  <2> QED BY <1>3, <2>2 DEF Admits, import_admissible
<1>4. CASE c.verb = "undo"
  <2>1. compute_compensation(log, c.target) # None
    BY <1>4 DEF Admits
  <2>2. compute_compensation(log, c.target).kind \in {"ref.delete", "ref.update"}
    BY <2>1 DEF compute_compensation
  <2> QED BY <1>4, <2>2, WantedByVerb
<1> QED BY <1>1, <1>2, <1>3, <1>4

\* Appending a record that lands no intent already landed.
LEMMA OnceGrows ==
  ASSUME IsSequence(log), IntentLandsOnce, NEW k, NEW ch, NEW p,
         log' = append(log, k, ch, p),
         k = "intent.landed" => p.intent = None \/ ~already_landed(log, p.intent)
  PROVE  IntentLandsOnce'
<1> DEFINE e == NewRecord(log, k, ch, p)
<1>1. /\ Len(log') = Len(log) + 1 /\ Len(log) \in Nat
      /\ \A i \in 1..Len(log) : log'[i] = log[i]
      /\ log'[Len(log) + 1] = e
  BY LogGrows DEF append
<1>2. e.kind = k /\ e.payload = p
  BY DEF NewRecord
<1>3. ASSUME NEW i \in 1..Len(log), k = "intent.landed", p.intent # None,
             log[i].kind = "intent.landed"
      PROVE  log[i].payload.intent # p.intent
  BY <1>3 DEF already_landed
<1> QED BY <1>1, <1>2, <1>3 DEF IntentLandsOnce, LandsEachOnce

LEMMA OnceStep ==
  ASSUME IntentsByImport, GateInv, WriterInv, IntentLandsOnce, [Next]_vars
  PROVE  IntentLandsOnce'
<1>0. IsSequence(log)
  BY DEF GateInv, TypeOK
<1>1. ASSUME NEW t \in Threads, AppendRecord(t)
      PROVE  IntentLandsOnce'
  <2>1. plan[t] = Wanted(log, call[t]) /\ Admits(log, call[t]) /\ call[t] \in Calls
    BY <1>1 DEF AppendRecord, WriterInv, PlanInv, GateInv, CallInv
  <2>2. plan[t].kind = "intent.landed" =>
          \/ plan[t].payload.intent = None
          \/ ~already_landed(log, plan[t].payload.intent)
    BY <2>1, WantedIsNew
  <2> QED BY <1>0, <1>1, <2>2, OnceGrows DEF AppendRecord
<1>2. ASSUME NEW t \in Threads, Decide(t), log' # log
      PROVE  IntentLandsOnce'
  <2>1. log' = append(log, "authz.denied", call[t].chain, NoPayload)
    BY <1>2 DEF Decide, audit_denial
  <2> QED BY <1>0, <2>1, OnceGrows
<1>3. \/ \E t \in Threads : AppendRecord(t) \/ Decide(t)
      \/ log' = log
  BY DEF Next, Step, Quiescent, vars, Begin, Load, Backpressure, AcquireCas,
         RecordPeak, Hook, Lock, LockPoisoned, ReadUndo, ReadImport, Unlock,
         ReleaseLoad, ReleaseCas, Panic, dataVars
<1> QED BY <1>1, <1>2, <1>3 DEF IntentLandsOnce

\* However many threads import concurrently, an intent id that comes onto the
\* log through import_sidecar is landed by one record: the look for a duplicate
\* and the append are under one hold of the mutex.
THEOREM LandsOncePerIntent ==
  ASSUME IntentsByImport
  PROVE  Spec => []IntentLandsOnce
<1>1. Init => IntentLandsOnce
  BY DEF Init, IntentLandsOnce, IntentsByImport
<1>2. GateInv /\ WriterInv /\ IntentLandsOnce /\ [Next]_vars => IntentLandsOnce'
  BY OnceStep
<1> QED BY <1>1, <1>2, GateInit, GateStep, WriterInit, WriterStep, PTL DEF Spec

-----------------------------------------------------------------------------
(* What one step may never do to the log. *)

\* Every set of naturals that is not empty has a least member: induction.
LEMMA Least ==
  ASSUME NEW T \in SUBSET Nat, T # {}
  PROVE  \E x \in T : \A y \in T : x <= y
<1>1. PICK x \in T : \A y \in T : <<y, x>> \notin OpToRel(<, Nat)
  BY NatLessThanWellFounded, WFMin
<1>2. \A y \in T : ~(y < x)
  BY <1>1 DEF OpToRel
<1> QED BY <1>2

\* The function replay_unchecked defines, up to record m.
IsReplay(f, l, m) ==
  f = [n \in 0..m |-> IF n = 0 THEN EmptyRefs
                      ELSE IF f[n - 1] = None THEN None
                      ELSE replay_record(f[n - 1], l[n])]

\* There is one: were there none for some length, there would be none for a
\* least length, and the one for the length before it extends.
LEMMA ReplayExists ==
  ASSUME NEW l, NEW m \in Nat
  PROVE  \E f : IsReplay(f, l, m)
<1> DEFINE Bad == {k \in Nat : ~\E f : IsReplay(f, l, k)}
<1> SUFFICES ASSUME Bad # {} PROVE FALSE
  OBVIOUS
<1> HIDE DEF Bad
<1>1. PICK k \in Bad : \A y \in Bad : k <= y
  BY Least DEF Bad
<1>2. k \in Nat /\ \A f : ~IsReplay(f, l, k)
  BY <1>1 DEF Bad
<1>3. k # 0
  <2> DEFINE g == [n \in 0..0 |-> EmptyRefs]
  <2>1. IsReplay(g, l, 0)
    BY DEF IsReplay
  <2> QED BY <1>2, <2>1
<1>4. k - 1 \in Nat /\ k - 1 \notin Bad
  BY <1>1, <1>2, <1>3
<1>5. PICK f : IsReplay(f, l, k - 1)
  BY <1>4 DEF Bad
<1> DEFINE Replayed(p, n) == IF p = None THEN None ELSE replay_record(p, l[n])
           g == [n \in 0..k |-> IF n = k THEN Replayed(f[k - 1], k) ELSE f[n]]
<1>6. \A n \in 0..(k - 1) : f[n] = IF n = 0 THEN EmptyRefs
                                   ELSE Replayed(f[n - 1], n)
  BY <1>5 DEF IsReplay
<1> HIDE DEF Replayed
<1>7. \A n \in 0..k : g[n] = IF n = 0 THEN EmptyRefs ELSE Replayed(g[n - 1], n)
  BY <1>2, <1>3, <1>6
<1>8. g = [n \in 0..k |-> IF n = 0 THEN EmptyRefs ELSE Replayed(g[n - 1], n)]
  BY <1>7
<1>9. IsReplay(g, l, k)
  BY <1>8 DEF IsReplay, Replayed
<1> QED BY <1>2, <1>9

\* So the recursive definition means what it says.
LEMMA ReplayUnfolds ==
  ASSUME NEW l, Len(l) \in Nat
  PROVE  \E f : IsReplay(f, l, Len(l)) /\ replay_unchecked(l) = f[Len(l)]
<1> DEFINE g == CHOOSE f : IsReplay(f, l, Len(l))
<1>1. IsReplay(g, l, Len(l))
  BY ReplayExists
<1>2. replay_unchecked(l) = g[Len(l)]
  BY DEF replay_unchecked, IsReplay
<1> QED BY <1>1, <1>2

\* The replay of a log one record longer is the replay of the log, continued.
LEMMA ReplayAppends ==
  ASSUME NEW l, NEW a, Len(l) \in Nat, Len(a) = Len(l) + 1,
         \A i \in 1..Len(l) : a[i] = l[i]
  PROVE  replay_unchecked(a) =
           IF replay_unchecked(l) = None THEN None
           ELSE replay_record(replay_unchecked(l), a[Len(a)])
<1> DEFINE m == Len(l)
<1>1. PICK f : IsReplay(f, l, m) /\ replay_unchecked(l) = f[m]
  BY ReplayUnfolds
<1>2. PICK g : IsReplay(g, a, m + 1) /\ replay_unchecked(a) = g[m + 1]
  BY ReplayUnfolds
<1> DEFINE Diff == {n \in 0..m : f[n] # g[n]}
<1>3. Diff = {}
  <2> SUFFICES ASSUME Diff # {} PROVE FALSE
    OBVIOUS
  <2> HIDE DEF Diff
  <2>0. Diff \in SUBSET Nat
    BY DEF Diff
  <2>1. PICK n \in Diff : \A y \in Diff : n <= y
    BY <2>0, Least
  <2>2. n \in 0..m /\ f[n] # g[n]
    BY <2>1 DEF Diff
  <2>3. n # 0
    BY <1>1, <1>2, <2>2 DEF IsReplay
  <2>4. n - 1 \in 0..m /\ n - 1 \notin Diff
    BY <2>1, <2>2, <2>3
  <2>5. f[n - 1] = g[n - 1]
    BY <2>4 DEF Diff
  <2>6. f[n] = g[n]
    BY <1>1, <1>2, <2>2, <2>3, <2>5 DEF IsReplay
  <2> QED BY <2>2, <2>6
<1>4. f[m] = g[m]
  BY <1>3
<1>5. g[m + 1] = IF g[m] = None THEN None ELSE replay_record(g[m], a[m + 1])
  BY <1>2 DEF IsReplay
<1> QED BY <1>1, <1>2, <1>4, <1>5

\* The compensation of an event, applied to any ref state, sets the event's ref
\* to what the prefix before the event left there and touches no other ref.
LEMMA CompensationRestores ==
  ASSUME NEW l, NEW k, NEW rec, NEW before,
         compute_compensation(l, k) # None,
         rec.kind = compute_compensation(l, k).kind,
         rec.payload = compute_compensation(l, k).payload
  PROVE  LET name == l[k + 1].payload.ref
             after == replay_record(before, rec)
         IN  /\ ref_get(after, name) =
                  ref_get(replay_unchecked(SubSeq(l, 1, k)), name)
             /\ \A r \in (DOMAIN before \union DOMAIN after) \ {name} :
                  ref_get(after, r) = ref_get(before, r)
<1> DEFINE name == l[k + 1].payload.ref
           prior == ref_get(replay_unchecked(SubSeq(l, 1, k)), name)
           after == replay_record(before, rec)
<1>1. /\ name # None
      /\ rec.kind = IF prior = None THEN "ref.delete" ELSE "ref.update"
      /\ rec.payload = [NoPayload EXCEPT !.ref = name, !.target = prior]
  <2> HIDE DEF prior
  <2> QED BY DEF compute_compensation, prior
<1> HIDE DEF prior, name
<1>2. rec.payload.ref = name /\ rec.payload.target = prior /\ rec.payload.inert = FALSE
  BY <1>1 DEF NoPayload
<1>3. CASE prior = None
  <2>1. after = ref_remove(before, name)
    BY <1>1, <1>2, <1>3 DEF replay_record
  <2> QED BY <1>3, <2>1 DEF ref_remove, ref_get, name, prior
<1>4. CASE prior # None
  <2>1. after = ref_insert(before, name, prior)
    BY <1>1, <1>2, <1>4 DEF replay_record
  <2> HIDE DEF after
  <2>2. /\ ref_get(after, name) = prior
        /\ \A r \in (DOMAIN before \union DOMAIN after) \ {name} :
                  ref_get(after, r) = ref_get(before, r)
    BY <1>4, <2>1 DEF ref_insert, ref_get
  <2> QED BY <2>2 DEF after, name, prior
<1> QED BY <1>3, <1>4

\* A poisoned mutex is held by nobody.
PoisonInv == poisoned => mutex = None

LEMMA PoisonStep == GateInv /\ WriterInv /\ PoisonInv /\ [Next]_vars => PoisonInv'
<1> SUFFICES ASSUME GateInv, WriterInv, PoisonInv, [Next]_vars PROVE PoisonInv'
  OBVIOUS
<1> USE SerializerAssumption DEF PoisonInv, lockVars
<1>1. ASSUME NEW t \in Threads, Panic(t) PROVE PoisonInv'
  BY <1>1 DEF Panic, GateInv, TypeOK
<1>2. ASSUME NEW t \in Threads, Lock(t) \/ Unlock(t) PROVE PoisonInv'
  BY <1>2 DEF Lock, Unlock
<1>3. \/ \E t \in Threads : Panic(t) \/ Lock(t) \/ Unlock(t)
      \/ mutex' = mutex /\ poisoned' = poisoned
  BY DEF Next, Step, Quiescent, vars, Begin, Load, Backpressure, AcquireCas,
         RecordPeak, Hook, LockPoisoned, ReadUndo, ReadImport, Decide,
         AppendRecord, ReleaseLoad, ReleaseCas
<1> QED BY <1>1, <1>2, <1>3

\* Only the holder of the mutex writes, and a poisoned one has no holder.
LEMMA FrozenStep ==
  GateInv /\ WriterInv /\ PoisonInv /\ [Next]_vars => (poisoned => log' = log)
<1> SUFFICES ASSUME GateInv, WriterInv, PoisonInv, [Next]_vars, log' # log
             PROVE  ~poisoned
  OBVIOUS
<1>1. PICK t \in Threads : Decide(t) \/ AppendRecord(t)
  BY DEF Next, Step, Quiescent, vars, Begin, Load, Backpressure, AcquireCas,
         RecordPeak, Hook, Lock, LockPoisoned, ReadUndo, ReadImport, Unlock,
         ReleaseLoad, ReleaseCas, Panic, dataVars
<1>2. InCritical(t)
  BY <1>1 DEF Decide, AppendRecord, InCritical
<1>3. mutex = t
  BY <1>2 DEF WriterInv, OneWriter
<1> QED BY <1>3, SerializerAssumption DEF PoisonInv

\* The step that appends a compensation, whatever was appended since the event
\* it undoes.
LEMMA UndoStep ==
  ASSUME GateInv, WriterInv, [Next]_vars, NEW t \in Threads, UndoAppended(t),
         replay_unchecked(log) # None
  PROVE  LET k == call[t].target
             name == log[k + 1].payload.ref
             before == replay_unchecked(log)
             after == replay_unchecked(log')
         IN  /\ ref_get(after, name) =
                  ref_get(replay_unchecked(SubSeq(log, 1, k)), name)
             /\ \A r \in (DOMAIN before \union DOMAIN after) \ {name} :
                  ref_get(after, r) = ref_get(before, r)
<1>1. AppendRecord(t)
  <2>1. pc \in [Threads -> Points] /\ pc'[t] # pc[t] /\ pc[t] = "append"
    BY DEF UndoAppended, GateInv, TypeOK
  <2>2. PICK u \in Threads :
          \/ \E c \in Calls : Begin(u, c)
          \/ Step(u) \/ Panic(u)
    BY <2>1 DEF Next, Quiescent, vars
  <2>3. u = t
    BY <2>1, <2>2 DEF Step, Begin, Load, Backpressure, AcquireCas, RecordPeak, Hook,
         Lock, LockPoisoned, ReadUndo, ReadImport, Decide, AppendRecord, Unlock,
         ReleaseLoad, ReleaseCas, Panic, Goto
  <2>4. ~Panic(t)
    BY <2>1 DEF UndoAppended, Panic, Goto
  <2> QED BY <2>1, <2>2, <2>3, <2>4 DEF Step, Begin, Load, Backpressure,
         AcquireCas, RecordPeak, Hook, Lock, LockPoisoned, ReadUndo, ReadImport,
         Decide, Unlock, ReleaseLoad, ReleaseCas
<1> DEFINE k == call[t].target
           comp == compute_compensation(log, k)
           e == NewRecord(log, plan[t].kind, call[t].chain, plan[t].payload)
<1>2. plan[t] = comp /\ comp # None
  <2>1. /\ pc[t] = "append" /\ call[t].verb = "undo"
        /\ plan[t] = Wanted(log, call[t]) /\ Admits(log, call[t])
    BY DEF UndoAppended, WriterInv, PlanInv
  <2> QED BY <2>1, WantedByVerb DEF Admits
<1>3. /\ Len(log') = Len(log) + 1 /\ Len(log) \in Nat
      /\ \A i \in 1..Len(log) : log'[i] = log[i]
      /\ log'[Len(log')] = e
  BY <1>1, LogGrows DEF AppendRecord, append, GateInv, TypeOK
<1>4. e.kind = comp.kind /\ e.payload = comp.payload
  BY <1>2 DEF NewRecord
<1>5. replay_unchecked(log') = replay_record(replay_unchecked(log), e)
  BY <1>3, ReplayAppends
<1> HIDE DEF e, k, comp
<1> QED BY <1>2, <1>4, <1>5, CompensationRestores DEF comp, k

\* However many records other writers appended in between, an undo sets the ref
\* of its event to what it was just before the event and touches nothing else;
\* and a writer that panicked under the mutex leaves a log nobody writes again.
THEOREM StepsCorrect == Spec => StepsSound
<1>1. Init => PoisonInv
  BY DEF Init, PoisonInv
<1> DEFINE Undoes(t) ==
      UndoAppended(t) =>
       LET k == call[t].target
           name == log[k + 1].payload.ref
           before == replay_unchecked(log)
           after == replay_unchecked(log')
       IN  before # None =>
             /\ ref_get(after, name) =
                  ref_get(replay_unchecked(SubSeq(log, 1, k)), name)
             /\ \A r \in (DOMAIN before \union DOMAIN after) \ {name} :
                  ref_get(after, r) = ref_get(before, r)
<1>2. GateInv /\ WriterInv /\ [Next]_vars => [\A t \in Threads : Undoes(t)]_vars
  BY UndoStep
<1>3. GateInv /\ WriterInv /\ PoisonInv /\ [Next]_vars =>
        [poisoned => log' = log]_vars
  BY FrozenStep
<1> HIDE DEF Undoes
<1>4. Spec => [][\A t \in Threads : Undoes(t)]_vars
  BY <1>2, GateInit, GateStep, WriterInit, WriterStep, PTL DEF Spec
<1>5. Spec => [][poisoned => log' = log]_vars
  BY <1>1, <1>3, PoisonStep, GateInit, GateStep, WriterInit, WriterStep, PTL DEF Spec
<1> QED BY <1>4, <1>5, PTL DEF StepsSound, UndoRestores, PoisonFreezesLog, Undoes
=============================================================================
