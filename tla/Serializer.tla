----------------------------- MODULE Serializer -----------------------------
(***************************************************************************)
(* The serialized writer of hugit-refstore: threads calling submit, undo   *)
(* and import_sidecar on one shared event log.  A call takes a permit from *)
(* a bounded lock-free semaphore or is refused with back-pressure, then    *)
(* the log mutex, decides and appends under it, and gives both back in     *)
(* reverse order (the drop order of the two guards).                       *)
(*                                                                         *)
(* Every atomic operation of the code is a step: the load and the          *)
(* compare-exchange of the permit count, the fetch_max of the peak, the    *)
(* mutex, and, under the mutex, reading the log, the audited decision and  *)
(* the append.                                                             *)
(***************************************************************************)
EXTENDS EventLog, FiniteSets

CONSTANTS Threads,      \* submitting threads
          Capacity,     \* permits (from_log clamps it to at least 1)
          Calls,        \* the calls a thread may make
          InitialLogs,  \* logs from_log may be given
          MaxCalls,     \* bound: calls made in a behaviour
          MaxPanics     \* bound: panicking calls in a behaviour

Elements(s) == {s[i] : i \in 1..Len(s)}
IsSequence(s) == s \in Seq(Elements(s))

\* A call: verb submit carries kind and payload, undo carries the target seq,
\* import carries its intent, ref and target in the payload.
CallType(c) ==
  /\ c.verb \in {"submit", "undo", "import"}
  /\ c.kind \in RefKinds \union {"note"}
  /\ c.chain \in Seq(Identities)
  /\ c.target \in Nat

ASSUME SerializerAssumption ==
  /\ Capacity \in Nat \ {0}
  /\ MaxCalls \in Nat
  /\ MaxPanics \in Nat
  /\ None \notin Threads
  /\ IsFiniteSet(Threads)
  /\ \A c \in Calls : CallType(c)
  /\ \A l \in InitialLogs :
       /\ IsSequence(l)
       /\ verify_chain(l)
       /\ \A i \in 1..Len(l) : l[i].kind # "provenance.redaction"

VARIABLES
  log,        \* the records inside the mutex
  mutex,      \* the thread holding it, or None
  poisoned,   \* set when the holder panics
  in_use,     \* permits out
  peak,       \* high-water mark of in_use
  pc,         \* per thread: the next atomic operation of its call
  call,       \* per thread: the call in progress
  cur,        \* per thread: the permit count it last observed
  plan,       \* per thread: the event it computed under the mutex
  result,     \* per thread: what its last call returned
  returned,   \* history: records loaded, or handed to callers as appended
  audited,    \* history: denials recorded
  calls,      \* counter for MaxCalls
  panics      \* counter for MaxPanics

vars == <<log, mutex, poisoned, in_use, peak, pc, call, cur, plan, result,
          returned, audited, calls, panics>>

gateVars == <<in_use, peak, cur>>
lockVars == <<mutex, poisoned>>
dataVars == <<log, plan, returned, audited>>
countVars == <<calls, panics>>

Points == {"idle", "gate", "cas", "peak", "hook", "lock", "read", "decide",
           "append", "unlock", "release", "release_cas"}

Goto(t, p) == pc' = [pc EXCEPT ![t] = p]
Return(t, r) == result' = [result EXCEPT ![t] = r]

\* The locals of a finished call are gone.
Forget(t) == call' = [call EXCEPT ![t] = None] /\ cur' = [cur EXCEPT ![t] = 0]

Init ==
  /\ log \in InitialLogs
  /\ mutex = None /\ poisoned = FALSE
  /\ in_use = 0 /\ peak = 0
  /\ pc = [t \in Threads |-> "idle"]
  /\ call = [t \in Threads |-> None]
  /\ cur = [t \in Threads |-> 0]
  /\ plan = [t \in Threads |-> None]
  /\ result = [t \in Threads |-> None]
  /\ returned = Elements(log) /\ audited = 0
  /\ calls = 0 /\ panics = 0

Begin(t, c) ==
  /\ pc[t] = "idle" /\ calls < MaxCalls
  /\ call' = [call EXCEPT ![t] = c]
  /\ calls' = calls + 1
  /\ Goto(t, "gate") /\ Return(t, None)
  /\ UNCHANGED <<gateVars, lockVars, dataVars, panics>>

-----------------------------------------------------------------------------
(* Semaphore. *)

Load(t) ==
  /\ pc[t] = "gate"
  /\ cur' = [cur EXCEPT ![t] = in_use]
  /\ Goto(t, "cas")
  /\ UNCHANGED <<in_use, peak, call, result, lockVars, dataVars, countVars>>

Backpressure(t) ==
  /\ pc[t] = "cas" /\ cur[t] >= Capacity
  /\ Goto(t, "idle") /\ Return(t, "Backpressure") /\ Forget(t)
  /\ UNCHANGED <<in_use, peak, lockVars, dataVars, countVars>>

\* A weak compare-exchange may also fail spuriously: cur is then re-read.
AcquireCas(t) ==
  /\ pc[t] = "cas" /\ cur[t] < Capacity
  /\ IF in_use = cur[t]
       THEN in_use' = cur[t] + 1 /\ Goto(t, "peak") /\ UNCHANGED cur
       ELSE cur' = [cur EXCEPT ![t] = in_use] /\ UNCHANGED <<in_use, pc>>
  /\ UNCHANGED <<peak, call, result, lockVars, dataVars, countVars>>

RecordPeak(t) ==
  /\ pc[t] = "peak"
  /\ peak' = IF cur[t] + 1 > peak THEN cur[t] + 1 ELSE peak
  /\ cur' = [cur EXCEPT ![t] = 0]
  /\ Goto(t, IF call[t].verb = "submit" THEN "hook" ELSE "lock")
  /\ UNCHANGED <<in_use, call, result, lockVars, dataVars, countVars>>

ReleaseLoad(t) ==
  /\ pc[t] = "release"
  /\ cur' = [cur EXCEPT ![t] = in_use]
  /\ Goto(t, "release_cas")
  /\ UNCHANGED <<in_use, peak, call, result, lockVars, dataVars, countVars>>

\* Mutant: a failed compare-exchange retries with the stale count.
ReleaseCasStale(t) ==
  /\ pc[t] = "release_cas"
  /\ IF in_use = cur[t]
       THEN /\ in_use' = IF cur[t] = 0 THEN 0 ELSE cur[t] - 1
            /\ Goto(t, "idle") /\ Forget(t)
       ELSE UNCHANGED <<in_use, pc, call, cur>>
  /\ UNCHANGED <<peak, result, lockVars, dataVars, countVars>>

ReleaseCas(t) ==
  /\ pc[t] = "release_cas"
  /\ IF in_use = cur[t]
       THEN /\ in_use' = IF cur[t] = 0 THEN 0 ELSE cur[t] - 1
            /\ Goto(t, "idle") /\ Forget(t)
       ELSE cur' = [cur EXCEPT ![t] = in_use] /\ UNCHANGED <<in_use, pc, call>>
  /\ UNCHANGED <<peak, result, lockVars, dataVars, countVars>>

-----------------------------------------------------------------------------
(* The critical section. *)

\* The admission hook of submit runs after the permit and before the mutex.
Hook(t) ==
  /\ pc[t] = "hook"
  /\ Goto(t, "lock")
  /\ UNCHANGED <<gateVars, lockVars, dataVars, call, result, countVars>>

\* Mutant: the poison flag is ignored (into_inner).
LockIgnoringPoison(t) ==
  /\ pc[t] = "lock" /\ mutex = None
  /\ mutex' = t
  /\ Goto(t, IF call[t].verb = "submit" THEN "decide" ELSE "read")
  /\ UNCHANGED <<gateVars, poisoned, dataVars, call, result, countVars>>

Lock(t) ==
  /\ pc[t] = "lock" /\ mutex = None /\ ~poisoned
  /\ mutex' = t
  /\ Goto(t, IF call[t].verb = "submit" THEN "decide" ELSE "read")
  /\ UNCHANGED <<gateVars, poisoned, dataVars, call, result, countVars>>

LockPoisoned(t) ==
  /\ pc[t] = "lock" /\ mutex = None /\ poisoned
  /\ Goto(t, "release") /\ Return(t, "WriterPoisoned")
  /\ UNCHANGED <<gateVars, lockVars, dataVars, call, countVars>>

\* undo: the compensation, computed from the log under the mutex.
ReadUndo(t) ==
  /\ pc[t] = "read" /\ call[t].verb = "undo"
  /\ LET comp == compute_compensation(log, call[t].target)
     IN  IF comp = None
           THEN Goto(t, "unlock") /\ Return(t, "Refused") /\ UNCHANGED plan
           ELSE /\ plan' = [plan EXCEPT ![t] = comp]
                /\ Goto(t, "decide") /\ UNCHANGED result
  /\ UNCHANGED <<gateVars, lockVars, log, returned, audited, call, countVars>>

\* import_sidecar: namespace, id and duplicate checks, under the mutex.
ReadImport(t) ==
  /\ pc[t] = "read" /\ call[t].verb = "import"
  /\ LET p == call[t].payload
     IN  IF ~import_admissible(log, p.intent, p.ref)
           THEN Goto(t, "unlock") /\ Return(t, "Refused") /\ UNCHANGED plan
           ELSE /\ plan' = [plan EXCEPT ![t] =
                     [kind |-> "intent.landed",
                      payload |-> import_payload(p.intent, p.ref, p.target)]]
                /\ Goto(t, "append") /\ UNCHANGED result
  /\ UNCHANGED <<gateVars, lockVars, log, returned, audited, call, countVars>>

\* Mutant: undo checks the Push column.
DecideAsPush(t) ==
  /\ pc[t] = "decide"
  /\ LET c == call[t]
     IN  IF authorize(c.chain, "Push")
           THEN /\ plan' = IF c.verb = "undo" THEN plan
                           ELSE [plan EXCEPT ![t] =
                                   [kind |-> c.kind, payload |-> c.payload]]
                /\ Goto(t, "append") /\ UNCHANGED <<log, audited, result>>
           ELSE /\ log' = audit_denial(log, c.chain)
                /\ audited' = audited + 1
                /\ Goto(t, "unlock") /\ Return(t, "Denied") /\ UNCHANGED plan
  /\ UNCHANGED <<gateVars, lockVars, returned, call, countVars>>

Decide(t) ==
  /\ pc[t] = "decide"
  /\ LET c == call[t]
         endpoint == IF c.verb = "undo" THEN "Undo" ELSE "Push"
     IN  IF authorize(c.chain, endpoint)
           THEN /\ plan' = IF c.verb = "undo" THEN plan
                           ELSE [plan EXCEPT ![t] =
                                   [kind |-> c.kind, payload |-> c.payload]]
                /\ Goto(t, "append") /\ UNCHANGED <<log, audited, result>>
           ELSE /\ log' = audit_denial(log, c.chain)
                /\ audited' = audited + 1
                /\ Goto(t, "unlock") /\ Return(t, "Denied") /\ UNCHANGED plan
  /\ UNCHANGED <<gateVars, lockVars, returned, call, countVars>>

AppendRecord(t) ==
  /\ pc[t] = "append"
  /\ log' = append(log, plan[t].kind, call[t].chain, plan[t].payload)
  /\ returned' = returned \union
       {NewRecord(log, plan[t].kind, call[t].chain, plan[t].payload)}
  /\ Goto(t, "unlock") /\ Return(t, "Ok")
  /\ UNCHANGED <<gateVars, lockVars, plan, audited, call, countVars>>

\* The mutex guard is declared after the permit, so it is dropped first.
Unlock(t) ==
  /\ pc[t] = "unlock"
  /\ mutex' = None
  /\ plan' = [plan EXCEPT ![t] = None]
  /\ Goto(t, "release")
  /\ UNCHANGED <<gateVars, poisoned, log, returned, audited, call, result,
                 countVars>>

\* Mutant: a panicking call does not return its permit.
PanicLeakingPermit(t) ==
  /\ pc[t] \in {"hook", "read", "decide", "append"} /\ panics < MaxPanics
  /\ panics' = panics + 1
  /\ mutex' = IF mutex = t THEN None ELSE mutex
  /\ poisoned' = (poisoned \/ mutex = t)
  /\ plan' = [plan EXCEPT ![t] = None]
  /\ Goto(t, "idle") /\ Return(t, "Panicked")
  /\ UNCHANGED <<gateVars, log, returned, audited, call, calls>>

\* A panic in the hook or under the mutex unwinds through the guards held: the
\* mutex is poisoned and freed, the permit is returned.
Panic(t) ==
  /\ pc[t] \in {"hook", "read", "decide", "append"} /\ panics < MaxPanics
  /\ panics' = panics + 1
  /\ mutex' = IF mutex = t THEN None ELSE mutex
  /\ poisoned' = (poisoned \/ mutex = t)
  /\ plan' = [plan EXCEPT ![t] = None]
  /\ Goto(t, "release") /\ Return(t, "Panicked")
  /\ UNCHANGED <<gateVars, log, returned, audited, call, calls>>

Step(t) ==
  \/ Load(t) \/ Backpressure(t) \/ AcquireCas(t) \/ RecordPeak(t)
  \/ Hook(t) \/ Lock(t) \/ LockPoisoned(t)
  \/ ReadUndo(t) \/ ReadImport(t) \/ Decide(t) \/ AppendRecord(t)
  \/ Unlock(t) \/ ReleaseLoad(t) \/ ReleaseCas(t)

\* Every bounded call was made and has returned.
Quiescent == (\A t \in Threads : pc[t] = "idle") /\ calls = MaxCalls

Next ==
  \/ \E t \in Threads : (\E c \in Calls : Begin(t, c)) \/ Step(t) \/ Panic(t)
  \/ Quiescent /\ UNCHANGED vars

Spec == Init /\ [][Next]_vars

\* The scheduler runs every thread that can take a step.
FairSpec == Spec /\ \A t \in Threads : WF_vars(Step(t))

-----------------------------------------------------------------------------
(* Properties. *)

\* Between a won compare-exchange and the one that gives the permit back.
HasPermit(t) == pc[t] \in Points \ {"idle", "gate", "cas"}
InCritical(t) == pc[t] \in {"read", "decide", "append", "unlock"}

\* Types of every variable (the record fields are fixed by NewRecord).
TypeOK ==
  /\ IsSequence(log)
  /\ mutex \in Threads \union {None} /\ poisoned \in BOOLEAN
  /\ in_use \in Nat /\ peak \in Nat
  /\ pc \in [Threads -> Points]
  /\ call \in [Threads -> Calls \union {None}]
  /\ cur \in [Threads -> Nat]
  /\ DOMAIN plan = Threads /\ DOMAIN result = Threads
  /\ audited \in Nat /\ calls \in 0..MaxCalls /\ panics \in 0..MaxPanics

\* The permit count is exactly the number of calls between their winning and
\* their returning compare-exchange, on every path: Ok, denied, refused,
\* poisoned, panicked.  A leaked permit would shrink the gate for good, a
\* doubly returned one would widen it.
PermitAccounting ==
  in_use = Cardinality({t \in Threads : HasPermit(t)})

\* The load and the compare-exchange are two steps, and never more than
\* Capacity calls are admitted; the reported peak stays within it too.
PermitsBounded == in_use <= Capacity /\ peak <= Capacity

\* The peak is a high-water mark of the count as soon as every winner of a
\* compare-exchange has executed its fetch_max.
PeakIsHighWater == (\A t \in Threads : pc[t] # "peak") => in_use <= peak

\* The gate as a whole: no permit is leaked or returned twice, no call is
\* admitted beyond the capacity, and the peak it reports is one it reached.
GateSound == PermitAccounting /\ PermitsBounded /\ PeakIsHighWater

\* The mutex is held exactly by the one thread in its critical section; since
\* every point of the section has a permit, the permit outlives the mutex.
OneWriter == \A t \in Threads : InCritical(t) <=> mutex = t

\* A record some caller was told is appended is in the log, at its seq.
NoLostRecord ==
  \A r \in returned : r.seq + 1 \in 1..Len(log) /\ log[r.seq + 1] = r

\* Every record is accounted for: it was loaded, returned to one caller, or is
\* the audit record of one denial.
LogAccounts == Len(log) = Cardinality(returned) + audited

\* The chain the writers build under contention verifies.
ChainIntact == verify_chain(log)

\* The log of any number of contending writers: it verifies, holds every
\* record a caller was told of, and nothing that nobody can account for.
LogSound == ChainIntact /\ NoLostRecord /\ LogAccounts

\* No intent id was landed by two records of the log.
LandsEachOnce(l) ==
  \A i, j \in 1..Len(l) :
    ( /\ l[i].kind = "intent.landed" /\ l[j].kind = "intent.landed"
      /\ l[i].payload.intent = l[j].payload.intent
      /\ l[i].payload.intent # None ) => i = j

\* Intent ids come onto the log through import_sidecar, the one caller that
\* looks for them (submit takes any payload), and the log loaded was sound.
IntentsByImport ==
  /\ \A l \in InitialLogs : LandsEachOnce(l)
  /\ \A c \in Calls : c.verb = "submit" /\ c.kind = "intent.landed" =>
                         c.payload.intent = None

\* Concurrent imports of one intent id land it at most once.
IntentLandsOnce == LandsEachOnce(log)

\* A compensating append sets the ref of the undone event to what it was just
\* before that event, and touches no other ref.
UndoAppended(t) ==
  pc[t] = "append" /\ call[t].verb = "undo" /\ pc'[t] = "unlock"

UndoRestores ==
  [][\A t \in Threads : UndoAppended(t) =>
       LET k == call[t].target
           name == log[k + 1].payload.ref
           before == replay_unchecked(log)
           after == replay_unchecked(log')
       IN  before # None =>
             /\ ref_get(after, name) =
                  ref_get(replay_unchecked(SubSeq(log, 1, k)), name)
             /\ \A r \in (DOMAIN before \union DOMAIN after) \ {name} :
                  ref_get(after, r) = ref_get(before, r)]_vars

\* Once a writer panicked under the mutex no later call writes.
PoisonFreezesLog == [][poisoned => log' = log]_vars

\* What one step may never do to the log: an undo undoes exactly its event,
\* and a log whose writer panicked is left alone.
StepsSound == UndoRestores /\ PoisonFreezesLog

\* The serialized writer implements the atomic one.
Atomic == INSTANCE AtomicWriter
ImplementsAtomicWriter == Atomic!Spec

\* Every call returns: nobody spins forever in a compare-exchange loop or
\* waits forever for the mutex.
EveryCallReturns == \A t \in Threads : (pc[t] # "idle") ~> (pc[t] = "idle")
=============================================================================
