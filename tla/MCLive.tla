-------------------------------- MODULE MCLive --------------------------------
(* What must eventually happen, for the four components with a progress       *)
(* promise.  They share no state: a behaviour runs one of them, the part, and *)
(* fairness is that of the component's own FairSpec.                          *)
EXTENDS FileLock, UnionQueue, TLC

CONSTANTS None, main, side, a, b, i1, t1, t2, w1, w2

VARIABLES
  part,
  \* CaptureDrain
  published, source, done, dead, rlog, rlock, rpc, work, item, rcopy, rfaults,
  \* Serializer
  slog, mutex, poisoned, in_use, peak, spc, call, cur, plan, result, returned,
  audited, calls, panics

drainVars == <<published, source, done, dead, rlog, rlock, rpc, work, item, rcopy, rfaults>>
writerVars == <<slog, mutex, poisoned, in_use, peak, spc, call, cur, plan, result, returned,
                audited, calls, panics>>

\* Receipt 1 cannot be read and keeps one of the Limit places of each drain;
\* 3 and 4 are the two phases of one reference transaction.
StuckClass == <<"unreadable", "invalid", "valid", "valid">>
StuckFingerprint == <<None, None, 7, 7>>
StuckPhase == <<None, None, "prepared", "committed">>

Drain == INSTANCE CaptureDrain WITH
  Receipts <- 1..4, Class <- StuckClass, Fingerprint <- StuckFingerprint,
  Phase <- StuckPhase, Workers <- {w1, w2}, Limit <- 2, CleanupLimit <- 1,
  MaxFaults <- 1, log <- rlog, lock <- rlock, pc <- rpc, copy <- rcopy,
  faults <- rfaults

LiveIntentRefs == {side}
Log == INSTANCE EventLog WITH IntentRefs <- LiveIntentRefs

Pay(r, t) == [Log!NoPayload EXCEPT !.ref = r, !.target = t]
Submit == [verb |-> "submit", kind |-> "note", chain |-> <<"worker">>,
           payload |-> Log!NoPayload, target |-> 0]
Update(t, ch) == [Submit EXCEPT !.kind = "ref.update", !.chain = ch,
                                !.payload = Pay(main, t)]
Undo(k) == [Submit EXCEPT !.verb = "undo", !.target = k, !.chain = <<"human">>]
Import(r, i, ch) == [Submit EXCEPT !.verb = "import", !.chain = ch,
                                   !.payload = Log!import_payload(i, r, b)]

\* A log with one update and one record that touches no ref.
Seeded == Log!append(Log!append(<<>>, "ref.update", <<"human">>, Pay(main, a)),
                     "note", <<"worker">>, Log!NoPayload)

\* Refused and malformed requests: an unknown principal, an empty chain, an
\* update without a target (accepted, and refused by every later replay), an
\* undo out of range or of a record that touches no ref, an import onto a
\* branch and one without an id.
RefusedCalls ==
  {Update(b, <<"bogus">>), [Submit EXCEPT !.chain = <<>>], Update(None, <<"agent">>),
   Undo(1), Undo(3),
   Import(main, i1, <<"model">>), Import(side, None, <<"orchestrator">>)}

Writer == INSTANCE Serializer WITH
  Threads <- {t1, t2}, Capacity <- 2, Calls <- RefusedCalls,
  IntentRefs <- LiveIntentRefs, InitialLogs <- {Seeded}, MaxCalls <- 3,
  MaxPanics <- 1, log <- slog, pc <- spc

Parts == {"lock", "drain", "writer", "union"}
IdleBatch ==
  /\ members = {} /\ input = "valid" /\ limit = 0

LiveInit ==
  /\ part \in Parts
  /\ LockInit /\ Drain!Init /\ Writer!Init /\ Init
  /\ part # "union" => IdleBatch

LiveNext ==
  /\ UNCHANGED part
  /\ \/ part = "lock" /\ LockNext /\ UNCHANGED <<drainVars, writerVars, vars>>
     \/ part = "drain" /\ Drain!Next /\ UNCHANGED <<lockVars, writerVars, vars>>
     \/ part = "writer" /\ Writer!Next /\ UNCHANGED <<lockVars, drainVars, vars>>
     \/ part = "union" /\ Next /\ UNCHANGED <<lockVars, drainVars, writerVars>>

liveVars == <<part, lockVars, drainVars, writerVars, vars>>

\* The fairness of the four FairSpecs; a part that does not run owes nothing.
LockFair ==
  /\ WF_lockVars(part = "lock" /\ GrowOld)
  /\ \A p \in Procs : WF_lockVars(part = "lock" /\ LockStep(p))
DrainFair ==
  /\ WF_drainVars(part = "drain" /\ Drain!Age)
  /\ \A w \in {w1, w2} : /\ WF_drainVars(part = "drain" /\ Drain!Start(w))
                         /\ WF_drainVars(part = "drain" /\ Drain!Step(w))
WriterFair == \A t \in {t1, t2} : WF_writerVars(part = "writer" /\ Writer!Step(t))
UnionFair == WF_vars(part = "union" /\ Step)

LiveSpec ==
  LiveInit /\ [][LiveNext]_liveVars /\ LockFair /\ DrainFair /\ WriterFair /\ UnionFair

-----------------------------------------------------------------------------
(* Properties. *)

\* Every call on the serialized writer returns, whatever it is refused for and
\* whoever panicked before it: no thread spins forever on a compare-exchange.
EveryCallReturns == Writer!EveryCallReturns

\* With a file that can never be read in the way, and a drain that died, every
\* valid receipt still reaches the log, and finished receipts and their
\* markers are removed.
DrainsProgress == Drain!DrainsProgress

\* Every union evaluation ends with a commit or with everybody held.
EvaluationDecides == part = "union" => Decides
=============================================================================
